---- MODULE Spec2Model ----
(***************************************************************************)
(* Verification model of the WorldCup-Prediction backend.                  *)
(*                                                                         *)
(* The sub-systems share the module, each with its own specifications:     *)
(*   SpecQueue        dispatcher, broker adapter and scoring workers       *)
(*   SpecJobs         one scoring worker; malformed jobs, deleted rows     *)
(*   SpecRetry        one scoring worker under fair delivery               *)
(*   SpecDispatch     concurrent dispatcher runs                           *)
(*   SpecSession      session service (create, validate, refresh, delete)  *)
(*   SpecSessionMany  session service with many devices logged in          *)
(*   SpecOtp          one-time codes, concurrent requests                  *)
(*   SpecOtpMany      one-time codes, one client trying many codes         *)
(*   SpecOtpSpike     one-time codes, a spike of concurrent verifications  *)
(*   SpecScore        the scorer applied to every small submission         *)
(*   SpecGuard        the guard of the authenticated routes                *)
(*   SpecSignals      logins and refreshes with failing signal stores      *)
(* The dispatcher, the worker, refreshSession, sendOtp and verifyOtp are   *)
(* cut at their awaits on shared state (cache, database, broker), so that  *)
(* concurrent requests interleave where the event loop lets them.          *)
(* createSession, validateSession and the deletions are single steps.      *)
(***************************************************************************)
EXTENDS Integers, Sequences, FiniteSets, TLC

(***************************************************************************)
(* Bounds of the model                                                     *)
(***************************************************************************)
MaxSub == 1
MaxMsgs == 3
MaxDispatch == 2
MaxForeign == 1
NumWorkers == 2
NumDispatchers == 2
MaxSessions == 1
ManySessions == 4
NumUsers == 1
NumPrefixes == 1
MaxTime == 3
MaxRefresh == 1
NumPhones == 1
NumCodes == 2
MaxReq == 2
MaxSend == 2
NumTeams == 4
NumLabels == 2
MaxGroupLen == 3
NumIps == 2
MaxRefreshMany == 3
FewSessions == 3
NumUserAgents == 2
MaxVerify == 1
ManyVerify == 7
SpikeSize == 6
MaxRateCalls == 5

(***************************************************************************)
(* Configuration, in ticks of the model clock.  For the session service   *)
(* one tick is an access-token lifetime and the 30-day lifetimes are      *)
(* shortened to two ticks; for the one-time codes one tick is 60 s.       *)
(***************************************************************************)
expirySeconds == 2
sendCooldownSeconds == 2
verifyWindowSeconds == 1
accessTokenTtl == 1
refreshTokenTtl == 2
sessionTtl == 2
windowSeconds == 2
maxRequests == 2

(***************************************************************************)
(* Program constants                                                       *)
(***************************************************************************)
MAX_RETRIES == 3
MAX_VERIFY_ATTEMPTS == 5
RECENT_LOOKUP_LIMIT == 3
BULK_REFRESH_LOOKUP_LIMIT == 100
TOKEN_REFRESH_THRESHOLD_PER_HOUR == 50

None == -1

Workers == 1..NumWorkers
Dispatchers == 1..NumDispatchers
Subs == 1..MaxSub

VARIABLES
  \* ---- database (scoring) ----
  predictions,    \* ids of the rows of table "predictions"
  removed,        \* ids of the rows a cascade deleted from "predictions"
  results,        \* rows of table "results": [id, predictionId]
  nextResultId,
  \* ---- broker ----
  queue,          \* messages waiting in the main queue
  dlq,            \* messages dead-lettered into {queue}.dlq
  nextMsgId,
  published,      \* history: every message ever put on the main queue
  settled,        \* history: <<message id, "ack_ok" | "ack_retry" | "nack">>
  worker,         \* per consumer slot: [pc, msg, raised, existed, absent]
  \* ---- cache (progress counters) ----
  statsTotal,     \* prediction:stats:total (None when absent)
  statsProcessed, \* prediction:stats:processed (None when absent)
  \* ---- dispatcher ----
  dispatcher,     \* per dispatcher run in flight:
                  \*   [pc, scan, total, seenPredictions, seenResults, sent]
  dispatchRuns,
  \* ---- clock ----
  now,
  \* ---- database (auth) ----
  sessions,       \* rows of table "sessions"
  nextSid,
  nextTok,        \* serial of the next random token
  \* ---- cache (auth) ----
  accessCache,    \* session:token:{prefix}   -> [sid, exp]
  refreshCache,   \* session:refresh:{prefix} -> [sid, exp]
  refreshCount,   \* refresh:frequency:{userId}
  \* ---- requests in flight ----
  refresher,      \* the refreshSession call in flight: [pc, session, token]
  \* ---- observations ----
  issued,         \* tokens handed to clients: [tok, sid, userId, kind, via]
  revokedOne,     \* access tokens whose session deleteSession removed
  revokedAll,     \* access tokens whose session deleteAllUserSessions removed
  rotated,        \* access tokens whose hash refreshSession overwrote
  \* ---- cache (one-time codes), per phone ----
  otpKey,         \* otp:phone:{phone} -> [code, expiresAt, exp]
  sendLimitKey,   \* otp:send:limit:{phone} -> expiry (0 when absent)
  lastRequestKey, \* otp:last_request:{phone} -> expiry (0 when absent)
  attemptKey,     \* otp:verify:attempts:{phone} -> [n, exp]
  \* ---- requests in flight ----
  req,            \* per request slot: [pc, phone, code, attempts,
                  \*   expiresAt, seen, at, reply]
  consumed,       \* per phone: the code of the last verifyOtp that returned
                  \*   a user id, 0 once a new code was stored
  verifyRun,      \* per phone: the verifyOtp calls that reached the attempts
                  \*   counter since the last one that returned a user id,
                  \*   all within verifyWindowSeconds of the first: [n, since]
  sendCalls,
  verifyCalls,
  \* ---- observations ----
  sendOk,         \* sendOtp calls that returned: [phone, at, setAt]
  accepted,       \* verifyOtp calls that got past the attempt cap: [phone, at]
  \* ---- scoring ----
  teamGroup,      \* teams table: team id -> group label, None for no group
  iranTeamId,     \* id of the team named Iran, None when there is no such row
  userGroups,     \* the submission being scored: label -> sequence of ids
  scoreResult,    \* what scoreUser returned: [score, rule]
  \* ---- guarded routes ----
  request,        \* the last request AuthGuard.canActivate decided on
  enableIpValidation,         \* auth.security.enableIpValidation
  enableUserAgentValidation,  \* auth.security.enableUserAgentValidation
  \* ---- fraud signals ----
  audit,          \* suspicious activities written to the audit log
  thrown,         \* operations that rejected: [op, cause]
  \* ---- scheduled cleanup ----
  cleanup,        \* the cleanup run: [pc, count, removed]
  \* ---- rate limiting ----
  rateLimitKey,   \* cache key rate_limit:<ip>: [n, exp], exp None = no TTL
  rateCall,       \* RateLimitingGuard.canActivate calls: [pc, ip, requests, out]
  rateCalls,      \* canActivate calls started so far
  rateAdmitted    \* per ip: calls admitted since its key was created

queueVars == <<predictions, removed, results, nextResultId, queue, dlq,
               nextMsgId, published, settled, worker, statsTotal,
               statsProcessed, dispatcher, dispatchRuns>>

sessionVars == <<now, sessions, nextSid, nextTok, accessCache, refreshCache,
                 refreshCount, refresher, issued, revokedOne,
                 revokedAll, rotated>>

otpVars == <<otpKey, sendLimitKey, lastRequestKey, attemptKey, req,
             consumed, verifyRun, sendCalls, verifyCalls, sendOk, accepted>>

scoreVars == <<teamGroup, iranTeamId, userGroups, scoreResult>>

guardVars == <<request, enableIpValidation, enableUserAgentValidation>>

signalVars == <<audit, thrown>>

cleanupVars == <<cleanup>>

rateVars == <<rateLimitKey, rateCall, rateCalls, rateAdmitted>>

vars == <<queueVars, sessionVars, otpVars, scoreVars, guardVars, signalVars,
          cleanupVars, rateVars>>


NoMsg == [id |-> 0, predictionId |-> 0, retry |-> None, lastError |-> FALSE]
IdleWorker == [pc |-> "idle", msg |-> NoMsg, raised |-> FALSE,
               existed |-> FALSE, absent |-> FALSE]
IdleDispatcher == [pc |-> "idle", scan |-> {}, total |-> 0,
                   seenPredictions |-> {}, seenResults |-> {}, sent |-> {}]

InitQueue ==
  /\ predictions = {}
  /\ removed = {}
  /\ results = {}
  /\ nextResultId = 1
  /\ queue = {}
  /\ dlq = {}
  /\ nextMsgId = 1
  /\ published = {}
  /\ settled = {}
  /\ worker = [w \in Workers |-> IdleWorker]
  /\ statsTotal = None
  /\ statsProcessed = None
  /\ dispatcher = [d \in Dispatchers |-> IdleDispatcher]
  /\ dispatchRuns = 0

(***************************************************************************)
(* Submission intake                                                       *)
(***************************************************************************)
\* ids are fresh uuids: the id of a deleted row is never given out again
createPrediction ==
  /\ Cardinality(predictions \cup removed) < MaxSub
  /\ predictions' = predictions \cup
                      {Cardinality(predictions \cup removed) + 1}
  /\ UNCHANGED <<removed, results, nextResultId, queue, dlq, nextMsgId,
                 published, settled, worker, statsTotal, statsProcessed,
                 dispatcher, dispatchRuns>>
  /\ UNCHANGED <<sessionVars, otpVars, scoreVars, guardVars, signalVars,
                 cleanupVars, rateVars>>

\* the owner of submission s is deleted: predictions.user_id and
\* results.prediction_id are declared ON DELETE CASCADE
cascadeDelete(s) ==
  /\ s \in predictions
  /\ predictions' = predictions \ {s}
  /\ removed' = removed \cup {s}
  /\ results' = {r \in results : r.predictionId # s}
  /\ UNCHANGED <<nextResultId, queue, dlq, nextMsgId, published, settled,
                 worker, statsTotal, statsProcessed, dispatcher,
                 dispatchRuns>>
  /\ UNCHANGED <<sessionVars, otpVars, scoreVars, guardVars, signalVars,
                 cleanupVars, rateVars>>

(***************************************************************************)
(* Broker adapter                                                          *)
(***************************************************************************)
ResultsOf(s) == {r \in results : r.predictionId = s}

\* the message channel.sendToQueue builds for a job: persistent, no headers
NewJob(s) == [id |-> nextMsgId, predictionId |-> s, retry |-> None,
              lastError |-> FALSE]

\* RabbitMQService.publishToQueue
publishToQueue(s) ==
  /\ queue' = queue \cup {NewJob(s)}
  /\ published' = published \cup {NewJob(s)}
  /\ nextMsgId' = nextMsgId + 1

\* msg.properties.headers?.['x-retry-count'] || 0
RetryHeader(m) == IF m.retry = None THEN 0 ELSE m.retry

\* another client of the broker publishes a job without a string
\* predictionId / userId (the model writes None for the missing field)
publishForeign ==
  /\ nextMsgId <= MaxMsgs
  /\ Cardinality({m \in published : m.predictionId = None /\ m.retry = None})
       < MaxForeign
  /\ publishToQueue(None)
  /\ UNCHANGED <<predictions, removed, results, nextResultId, dlq, settled,
                 worker, statsTotal, statsProcessed, dispatcher,
                 dispatchRuns>>
  /\ UNCHANGED <<sessionVars, otpVars, scoreVars, guardVars, signalVars,
                 cleanupVars, rateVars>>

(***************************************************************************)
(* Dispatcher: PredictionService.queueAllPredictionsForProcessing          *)
(***************************************************************************)
UnprocessedAll == predictions

\* the anti-join: predictions LEFT JOIN results WHERE result.id IS NULL
Unprocessed == {s \in predictions : ResultsOf(s) = {}}

DispatchScan(d) ==
  /\ dispatcher[d].pc = "idle"
  /\ dispatchRuns < MaxDispatch
  /\ dispatchRuns' = dispatchRuns + 1
  /\ dispatcher' = [dispatcher EXCEPT ![d] =
                      [pc |-> "stats", scan |-> Unprocessed,
                       total |-> Cardinality(Unprocessed),
                       seenPredictions |-> predictions,
                       seenResults |-> results, sent |-> {}]]
  /\ UNCHANGED <<predictions, removed, results, nextResultId, queue, dlq,
                 nextMsgId, published, settled, worker, statsTotal,
                 statsProcessed>>
  /\ UNCHANGED <<sessionVars, otpVars, scoreVars, guardVars, signalVars,
                 cleanupVars, rateVars>>

\* const existingTotal = await redis.get(totalKey); if (!existingTotal) ...
\* ('0' is a non-empty string, hence truthy: only an absent key initialises)
DispatchReadTotal(d) ==
  /\ dispatcher[d].pc = "stats"
  /\ dispatcher' = [dispatcher EXCEPT
                      ![d].pc = IF statsTotal = None THEN "setTotal"
                                ELSE "publish"]
  /\ UNCHANGED <<predictions, removed, results, nextResultId, queue, dlq,
                 nextMsgId, published, settled, worker, statsTotal,
                 statsProcessed, dispatchRuns>>
  /\ UNCHANGED <<sessionVars, otpVars, scoreVars, guardVars, signalVars,
                 cleanupVars, rateVars>>

DispatchSetTotal(d) ==
  /\ dispatcher[d].pc = "setTotal"
  /\ statsTotal' = dispatcher[d].total
  /\ dispatcher' = [dispatcher EXCEPT ![d].pc = "setProcessed"]
  /\ UNCHANGED <<predictions, removed, results, nextResultId, queue, dlq,
                 nextMsgId, published, settled, worker, statsProcessed,
                 dispatchRuns>>
  /\ UNCHANGED <<sessionVars, otpVars, scoreVars, guardVars, signalVars,
                 cleanupVars, rateVars>>

DispatchSetProcessed(d) ==
  /\ dispatcher[d].pc = "setProcessed"
  /\ statsProcessed' = 0
  /\ dispatcher' = [dispatcher EXCEPT ![d].pc = "publish"]
  /\ UNCHANGED <<predictions, removed, results, nextResultId, queue, dlq,
                 nextMsgId, published, settled, worker, statsTotal,
                 dispatchRuns>>
  /\ UNCHANGED <<sessionVars, otpVars, scoreVars, guardVars, signalVars,
                 cleanupVars, rateVars>>

\* one iteration of the publish loop (the scan is walked in id order)
DispatchPublish(d) ==
  /\ dispatcher[d].pc = "publish"
  /\ dispatcher[d].scan # {}
  /\ nextMsgId <= MaxMsgs
  /\ LET s == CHOOSE x \in dispatcher[d].scan :
                \A y \in dispatcher[d].scan : x <= y
     IN /\ publishToQueue(s)
        /\ dispatcher' = [dispatcher EXCEPT ![d].scan = @ \ {s},
                                            ![d].sent = @ \cup {NewJob(s)}]
  /\ UNCHANGED <<predictions, removed, results, nextResultId, dlq, settled,
                 worker, statsTotal, statsProcessed, dispatchRuns>>
  /\ UNCHANGED <<sessionVars, otpVars, scoreVars, guardVars, signalVars,
                 cleanupVars, rateVars>>

\* the loop is over: the run returns { queued, total }
DispatchDone(d) ==
  /\ dispatcher[d].pc = "publish"
  /\ dispatcher[d].scan = {}
  /\ dispatcher' = [dispatcher EXCEPT ![d] = IdleDispatcher]
  /\ UNCHANGED <<predictions, removed, results, nextResultId, queue, dlq,
                 nextMsgId, published, settled, worker, statsTotal,
                 statsProcessed, dispatchRuns>>
  /\ UNCHANGED <<sessionVars, otpVars, scoreVars, guardVars, signalVars,
                 cleanupVars, rateVars>>

\* an awaited cache or broker call of the run rejects (publishToQueue logs
\* and re-throws): the run ends with the error, what it wrote stays
DispatchError(d) ==
  /\ dispatcher[d].pc \in {"stats", "setTotal", "setProcessed", "publish"}
  /\ dispatcher' = [dispatcher EXCEPT ![d] = IdleDispatcher]
  /\ UNCHANGED <<predictions, removed, results, nextResultId, queue, dlq,
                 nextMsgId, published, settled, worker, statsTotal,
                 statsProcessed, dispatchRuns>>
  /\ UNCHANGED <<sessionVars, otpVars, scoreVars, guardVars, signalVars,
                 cleanupVars, rateVars>>

(***************************************************************************)
(* Worker: RabbitMQService.processMessage driving                          *)
(* PredictionProcessor.processPredictionJob                                *)
(***************************************************************************)
ValidJobAny(m) == TRUE

\* the guard at the top of processPredictionJob, before its try block:
\* predictionId and userId are non-empty strings
ValidJob(m) == m.predictionId # None

\* the broker hands a waiting message to a free consumer slot; the handler
\* starts and validates the job before its first await
Deliver(w) ==
  /\ worker[w].pc = "idle"
  /\ \E m \in queue :
       /\ queue' = queue \ {m}
       /\ worker' = [worker EXCEPT ![w] =
                       [pc |-> IF ValidJob(m) THEN "check" ELSE "retry",
                        msg |-> m, raised |-> ~ValidJob(m),
                        existed |-> FALSE, absent |-> FALSE]]
  /\ UNCHANGED <<predictions, removed, results, nextResultId, dlq, nextMsgId,
                 published, settled, statsTotal, statsProcessed, dispatcher,
                 dispatchRuns>>
  /\ UNCHANGED <<sessionVars, otpVars, scoreVars, guardVars, signalVars,
                 cleanupVars, rateVars>>

RethrowSwallowed(w) == [worker[w] EXCEPT !.pc = "ack", !.raised = TRUE]

\* the catch block of processPredictionJob: log, count, throw error
Rethrow(w) == [worker[w] EXCEPT !.pc = "retry", !.raised = TRUE]

HasResultNever(s) == FALSE

\* resultRepository.findOne({ where: { predictionId } }) found a row
HasResult(s) == ResultsOf(s) # {}

\* the idempotency check: skip when a result is found
\* (existed records what the table held when the query ran)
CheckExisting(w) ==
  /\ worker[w].pc = "check"
  /\ worker' = [worker EXCEPT
                  ![w].pc = IF HasResult(worker[w].msg.predictionId)
                            THEN "ack" ELSE "load",
                  ![w].existed = \E r \in results :
                                   r.predictionId = worker[w].msg.predictionId]
  /\ UNCHANGED <<predictions, removed, results, nextResultId, queue, dlq,
                 nextMsgId, published, settled, statsTotal, statsProcessed,
                 dispatcher, dispatchRuns>>
  /\ UNCHANGED <<sessionVars, otpVars, scoreVars, guardVars, signalVars,
                 cleanupVars, rateVars>>

PredictionFoundAlways(s) == TRUE

\* predictionRepository.findOne({ where: { id } }) found the row
PredictionFound(s) == s \in predictions

\* load the prediction; return when it is missing
\* (absent records what the table held when the query ran)
LoadPrediction(w) ==
  /\ worker[w].pc = "load"
  /\ worker' = [worker EXCEPT
                  ![w].pc = IF PredictionFound(worker[w].msg.predictionId)
                            THEN "insert" ELSE "ack",
                  ![w].absent = worker[w].msg.predictionId \notin predictions]
  /\ UNCHANGED <<predictions, removed, results, nextResultId, queue, dlq,
                 nextMsgId, published, settled, statsTotal, statsProcessed,
                 dispatcher, dispatchRuns>>
  /\ UNCHANGED <<sessionVars, otpVars, scoreVars, guardVars, signalVars,
                 cleanupVars, rateVars>>

\* the INSERT the table "results" accepts: its schema declares the primary
\* key on id and a plain index on prediction_id, so any new row is accepted
\* as long as the row it references is still there (foreign key)
InsertAccepted(s) == s \in predictions

\* resultRepository.save(result)
InsertResult(w) ==
  /\ worker[w].pc = "insert"
  /\ LET s == worker[w].msg.predictionId
     IN IF InsertAccepted(s)
        THEN /\ results' = results \cup
                    {[id |-> nextResultId, predictionId |-> s]}
             /\ nextResultId' = nextResultId + 1
             /\ worker' = [worker EXCEPT ![w].pc = "incr"]
        ELSE /\ worker' = [worker EXCEPT ![w] = Rethrow(w)]
             /\ UNCHANGED <<results, nextResultId>>
  /\ UNCHANGED <<predictions, removed, queue, dlq, nextMsgId, published,
                 settled, statsTotal, statsProcessed, dispatcher,
                 dispatchRuns>>
  /\ UNCHANGED <<sessionVars, otpVars, scoreVars, guardVars, signalVars,
                 cleanupVars, rateVars>>

\* redisService.incr(STATS_PROCESSED): an absent key counts from 0
IncrProcessed(w) ==
  /\ worker[w].pc = "incr"
  /\ statsProcessed' = IF statsProcessed = None THEN 1 ELSE statsProcessed + 1
  /\ worker' = [worker EXCEPT ![w].pc = "ack"]
  /\ UNCHANGED <<predictions, removed, results, nextResultId, queue, dlq,
                 nextMsgId, published, settled, statsTotal, dispatcher,
                 dispatchRuns>>
  /\ UNCHANGED <<sessionVars, otpVars, scoreVars, guardVars, signalVars,
                 cleanupVars, rateVars>>

\* handler returned: this.channel.ack(msg)
AckSuccess(w) ==
  /\ worker[w].pc = "ack"
  /\ settled' = settled \cup {<<worker[w].msg.id, "ack_ok">>}
  /\ worker' = [worker EXCEPT ![w] = IdleWorker]
  /\ UNCHANGED <<predictions, removed, results, nextResultId, queue, dlq,
                 nextMsgId, published, statsTotal, statsProcessed, dispatcher,
                 dispatchRuns>>
  /\ UNCHANGED <<sessionVars, otpVars, scoreVars, guardVars, signalVars,
                 cleanupVars, rateVars>>

\* a database or cache call of the handler rejects
HandlerError(w) ==
  /\ worker[w].pc \in {"check", "load", "insert", "incr"}
  /\ worker' = [worker EXCEPT ![w] = Rethrow(w)]
  /\ UNCHANGED <<predictions, removed, results, nextResultId, queue, dlq,
                 nextMsgId, published, settled, statsTotal, statsProcessed,
                 dispatcher, dispatchRuns>>
  /\ UNCHANGED <<sessionVars, otpVars, scoreVars, guardVars, signalVars,
                 cleanupVars, rateVars>>

\* the decision of handleMessageRetry: republish or dead-letter
ShouldRepublish(m) == RetryHeader(m) + 1 < MAX_RETRIES

NackRequeueTrue == TRUE

\* channel.nack(msg, false, false): the third argument is requeue
NackRequeue == FALSE

\* RabbitMQService.handleMessageRetry
handleMessageRetry(w) ==
  /\ worker[w].pc = "retry"
  /\ LET m == worker[w].msg
         retryCount == RetryHeader(m) + 1
     IN IF ShouldRepublish(m)
        THEN LET copy == [id |-> nextMsgId, predictionId |-> m.predictionId,
                          retry |-> retryCount, lastError |-> TRUE]
             IN /\ queue' = queue \cup {copy}
                /\ published' = published \cup {copy}
                /\ nextMsgId' = nextMsgId + 1
                /\ settled' = settled \cup {<<m.id, "ack_retry">>}
                /\ dlq' = dlq
        ELSE /\ settled' = settled \cup {<<m.id, "nack">>}
             /\ IF NackRequeue
                THEN /\ queue' = queue \cup {m}
                     /\ dlq' = dlq
                ELSE /\ dlq' = dlq \cup {m}
                     /\ queue' = queue
             /\ UNCHANGED <<published, nextMsgId>>
  /\ worker' = [worker EXCEPT ![w] = IdleWorker]
  /\ UNCHANGED <<predictions, removed, results, nextResultId, statsTotal,
                 statsProcessed, dispatcher, dispatchRuns>>
  /\ UNCHANGED <<sessionVars, otpVars, scoreVars, guardVars, signalVars,
                 cleanupVars, rateVars>>

\* the channel closes while a delivery is unacknowledged: the broker puts
\* the message back on the queue (at-least-once delivery)
Redeliver(w) ==
  /\ worker[w].pc \in {"check", "load", "insert", "incr", "ack", "retry"}
  /\ queue' = queue \cup {worker[w].msg}
  /\ worker' = [worker EXCEPT ![w] = IdleWorker]
  /\ UNCHANGED <<predictions, removed, results, nextResultId, dlq, nextMsgId,
                 published, settled, statsTotal, statsProcessed, dispatcher,
                 dispatchRuns>>
  /\ UNCHANGED <<sessionVars, otpVars, scoreVars, guardVars, signalVars,
                 cleanupVars, rateVars>>

(***************************************************************************)
(* Synchronous mode: PredictionService.processPredictionBatch              *)
(***************************************************************************)
\* the rows resultRepository.save(results) inserts for the page it scored
batchRows(page) ==
  {[id |-> nextResultId + Cardinality({y \in page : y < s}),
    predictionId |-> s] : s \in page}

\* predictionRepository.find({ skip: 0, take: batchSize, order: createdAt })
\* (the table is smaller than one batch); an empty page ends the run
processBatchFind(d) ==
  /\ dispatcher[d].pc = "idle"
  /\ dispatchRuns < MaxDispatch
  /\ dispatchRuns' = dispatchRuns + 1
  /\ dispatcher' = [dispatcher EXCEPT ![d] =
                      IF predictions = {} THEN IdleDispatcher
                      ELSE [IdleDispatcher EXCEPT !.pc = "batch",
                                                  !.scan = predictions]]
  /\ UNCHANGED <<predictions, removed, results, nextResultId, queue, dlq,
                 nextMsgId, published, settled, worker, statsTotal,
                 statsProcessed>>
  /\ UNCHANGED <<sessionVars, otpVars, scoreVars, guardVars, signalVars,
                 cleanupVars, rateVars>>

\* every prediction of the page is scored and resultRepository.save(results)
\* inserts one row for each in one transaction; the next page is empty and
\* the run ends. A row whose prediction is gone fails the whole save.
processBatchSave(d) ==
  /\ dispatcher[d].pc = "batch"
  /\ IF \A s \in dispatcher[d].scan : InsertAccepted(s)
     THEN /\ results' = results \cup batchRows(dispatcher[d].scan)
          /\ nextResultId' = nextResultId + Cardinality(dispatcher[d].scan)
     ELSE UNCHANGED <<results, nextResultId>>
  /\ dispatcher' = [dispatcher EXCEPT ![d] = IdleDispatcher]
  /\ UNCHANGED <<predictions, removed, queue, dlq, nextMsgId, published,
                 settled, worker, statsTotal, statsProcessed, dispatchRuns>>
  /\ UNCHANGED <<sessionVars, otpVars, scoreVars, guardVars, signalVars,
                 cleanupVars, rateVars>>

NextQueue ==
  \/ createPrediction
  \/ DispatchScan(1)
  \/ DispatchReadTotal(1)
  \/ DispatchSetTotal(1)
  \/ DispatchSetProcessed(1)
  \/ DispatchPublish(1)
  \/ DispatchDone(1)
  \/ DispatchError(1)
  \/ \E w \in Workers : Deliver(w)
  \/ \E w \in Workers : CheckExisting(w)
  \/ \E w \in Workers : LoadPrediction(w)
  \/ \E w \in Workers : InsertResult(w)
  \/ \E w \in Workers : IncrProcessed(w)
  \/ \E w \in Workers : AckSuccess(w)
  \/ \E w \in Workers : HandlerError(w)
  \/ \E w \in Workers : handleMessageRetry(w)
  \/ \E w \in Workers : Redeliver(w)

\* one consumer slot facing every kind of job: for a submission that is
\* there, for one that was deleted meanwhile, and malformed ones
NextJobs ==
  \/ createPrediction
  \/ \E s \in Subs : cascadeDelete(s)
  \/ publishForeign
  \/ DispatchScan(1)
  \/ DispatchReadTotal(1)
  \/ DispatchSetTotal(1)
  \/ DispatchSetProcessed(1)
  \/ DispatchPublish(1)
  \/ DispatchDone(1)
  \/ DispatchError(1)
  \/ Deliver(1)
  \/ CheckExisting(1)
  \/ LoadPrediction(1)
  \/ InsertResult(1)
  \/ IncrProcessed(1)
  \/ AckSuccess(1)
  \/ HandlerError(1)
  \/ handleMessageRetry(1)
  \/ Redeliver(1)

\* the consumer while its channel stays open (no redelivery by the broker)
WorkerStep(w) ==
  \/ Deliver(w)
  \/ CheckExisting(w)
  \/ LoadPrediction(w)
  \/ InsertResult(w)
  \/ IncrProcessed(w)
  \/ AckSuccess(w)
  \/ handleMessageRetry(w)

NextRetry ==
  \/ createPrediction
  \/ publishForeign
  \/ DispatchScan(1)
  \/ DispatchReadTotal(1)
  \/ DispatchSetTotal(1)
  \/ DispatchSetProcessed(1)
  \/ DispatchPublish(1)
  \/ DispatchDone(1)
  \/ Deliver(1)
  \/ CheckExisting(1)
  \/ LoadPrediction(1)
  \/ InsertResult(1)
  \/ IncrProcessed(1)
  \/ AckSuccess(1)
  \/ HandlerError(1)
  \/ handleMessageRetry(1)

\* the trigger in either mode (prediction.enableAsyncProcessing on or off
\* from one start of the service to the next), one consumer
NextSync ==
  \/ createPrediction
  \/ DispatchScan(1)
  \/ DispatchReadTotal(1)
  \/ DispatchSetTotal(1)
  \/ DispatchSetProcessed(1)
  \/ DispatchPublish(1)
  \/ DispatchDone(1)
  \/ Deliver(1)
  \/ CheckExisting(1)
  \/ LoadPrediction(1)
  \/ InsertResult(1)
  \/ IncrProcessed(1)
  \/ AckSuccess(1)
  \/ processBatchFind(1)
  \/ processBatchSave(1)

\* concurrent POST /prediction/admin/trigger-prediction-process requests:
\* dispatcher runs interleaving at their awaits, no worker consuming
NextDispatch ==
  \/ createPrediction
  \/ \E d \in Dispatchers : DispatchScan(d)
  \/ \E d \in Dispatchers : DispatchReadTotal(d)
  \/ \E d \in Dispatchers : DispatchSetTotal(d)
  \/ \E d \in Dispatchers : DispatchSetProcessed(d)
  \/ \E d \in Dispatchers : DispatchPublish(d)
  \/ \E d \in Dispatchers : DispatchDone(d)

(***************************************************************************)
(* Token primitives: TokenService                                          *)
(***************************************************************************)
Users == 1..NumUsers
Prefixes == 1..NumPrefixes

\* A token is the serial n of the random draw that produced it together
\* with its first PREFIX_LENGTH characters p.  Serial 0 is a well-formed
\* token no draw ever produced (a guess); BadToken is not 64 hex characters.
\* The draws are fixed so that every NumPrefixes-th token shares a prefix.
PrefixOfDraw(n) == (n % NumPrefixes) + 1
BadToken == [n |-> None, p |-> 0]
Forged == {[n |-> 0, p |-> q] : q \in Prefixes}

\* bcrypt.hash(token): the digest is determined by the whole token
bcryptHash(t) == <<"bcrypt", t.n, t.p>>

\* bcrypt.compare(token, hash)
verifyToken(t, h) == h = bcryptHash(t)

\* token.substring(0, PREFIX_LENGTH)
getTokenPrefix(t) == t.p

\* length === tokenLength * 2 and /^[a-f0-9]+$/i
validateTokenFormat(t) == t # BadToken

(***************************************************************************)
(* Session service: AuthService                                            *)
(***************************************************************************)
NoEntry == [sid |-> 0, exp |-> 0]
NoSession == [id |-> 0, userId |-> 0, tokenHash |-> <<>>,
              refreshTokenHash |-> <<>>, userAgent |-> None,
              ipAddress |-> None, createdAt |-> 0, expiresAt |-> 0]
IdleRefresher == [pc |-> "idle", session |-> NoSession, token |-> BadToken,
                  count |-> 0]

InitSignals ==
  /\ audit = {}
  /\ thrown = {}

InitSession ==
  /\ now = 0
  /\ sessions = {}
  /\ nextSid = 1
  /\ nextTok = 1
  /\ accessCache = [q \in Prefixes |-> NoEntry]
  /\ refreshCache = [q \in Prefixes |-> NoEntry]
  /\ refreshCount = [u \in Users |-> 0]
  /\ refresher = IdleRefresher
  /\ issued = {}
  /\ revokedOne = {}
  /\ revokedAll = {}
  /\ rotated = {}

Min(a, b) == IF a <= b THEN a ELSE b

\* redis GET key (a key never written is absent)
get(cache, q) == IF q \in DOMAIN cache THEN cache[q] ELSE NoEntry

\* redis SETEX key ttl value
setex(cache, q, ttl, sid) == [cache EXCEPT ![q] = [sid |-> sid, exp |-> now + ttl]]

\* sessionRepository.findOne({ where: { id } })
FindById(sid) == {s \in sessions : s.id = sid}

AccessTokensOf(S) ==
  {i.tok : i \in {j \in issued : j.kind = "access" /\ j.sid \in S}}

\* AuthService.createSession: generateSessionTokens, cacheSessionTokens
\* (checkConcurrentSessions only reads and writes the audit log)
createSession(u, ip, userAgent) ==
  /\ \E pa \in {PrefixOfDraw(nextTok)}, pr \in {PrefixOfDraw(nextTok + 1)} :
       LET accessToken == [n |-> nextTok, p |-> pa]
           refreshToken == [n |-> nextTok + 1, p |-> pr]
           session == [id |-> nextSid, userId |-> u,
                       tokenHash |-> bcryptHash(accessToken),
                       refreshTokenHash |-> bcryptHash(refreshToken),
                       userAgent |-> userAgent, ipAddress |-> ip,
                       createdAt |-> now,
                       expiresAt |-> now + refreshTokenTtl]
       IN /\ sessions' = sessions \cup {session}
          /\ accessCache' = setex(accessCache, pa, accessTokenTtl, nextSid)
          /\ refreshCache' = setex(refreshCache, pr, refreshTokenTtl, nextSid)
          /\ issued' = issued \cup
               {[tok |-> accessToken, sid |-> nextSid, userId |-> u,
                 kind |-> "access", via |-> "create"],
                [tok |-> refreshToken, sid |-> nextSid, userId |-> u,
                 kind |-> "refresh", via |-> "create"]}
  /\ nextSid' = nextSid + 1
  /\ nextTok' = nextTok + 2
  /\ UNCHANGED <<now, refreshCount, refresher, revokedOne, revokedAll,
                 rotated>>
  /\ UNCHANGED <<queueVars, otpVars, scoreVars, guardVars, signalVars,
                 cleanupVars, rateVars>>

\* validateTokenFromCache without the hash check on the row loaded by id
validateTokenFromCacheNoVerify(t) ==
  LET e == get(accessCache, getTokenPrefix(t))
  IN IF e.sid = 0 THEN 0
     ELSE IF \E s \in FindById(e.sid) : s.expiresAt > now
          THEN e.sid
          ELSE 0

\* AuthService.validateTokenFromCache: the session id it returns (0 = null)
validateTokenFromCache(t) ==
  LET e == get(accessCache, getTokenPrefix(t))
  IN IF e.sid = 0 THEN 0
     ELSE IF \E s \in FindById(e.sid) :
                s.expiresAt > now /\ verifyToken(t, s.tokenHash)
          THEN e.sid
          ELSE 0

\* ... and whether it ran invalidateAccessToken(tokenPrefix)
CacheEntryPurged(t) ==
  LET e == get(accessCache, getTokenPrefix(t))
  IN /\ e.sid # 0
     /\ \E s \in FindById(e.sid) :
          s.expiresAt > now /\ ~verifyToken(t, s.tokenHash)

\* find({ where: { expiresAt: MoreThan(now) }, order: { createdAt: 'DESC' },
\*        take: RECENT_LOOKUP_LIMIT }): rows of equal createdAt come in any
\* order, so every set of the most recent rows is a possible answer
Live == {s \in sessions : s.expiresAt > now}

RecentSessionsNoLimit == {Live}

RecentSessions ==
  {S \in SUBSET Live :
     /\ Cardinality(S) = Min(RECENT_LOOKUP_LIMIT, Cardinality(Live))
     /\ \A a \in S, b \in Live \ S : a.createdAt >= b.createdAt}

\* AuthService.validateTokenFromDatabase over the rows S the query returned
validateTokenFromDatabase(t, S) ==
  LET M == {s \in S : verifyToken(t, s.tokenHash)}
  IN IF M = {} THEN NoSession
     ELSE CHOOSE s \in M : \A o \in M : s.createdAt >= o.createdAt

\* the rows of S the loop of validateTokenFromDatabase can pass to
\* verifyToken: it walks S from the most recent row and returns at the first
\* match, so a row is reached unless a more recent row matches
fallbackCompared(t, S) ==
  {s \in S : ~\E m \in S : /\ m.createdAt > s.createdAt
                             /\ verifyToken(t, m.tokenHash)}

\* AuthService.validateSession: the session it returns (id 0 = null) when
\* the fallback query answers with the rows S.  Each path decides on one
\* database read (findOne by id, or the fallback find), so the result of a
\* call is the result computed on the rows as they are at that read.
validateSessionResult(t, S) ==
  IF ~validateTokenFormat(t) THEN NoSession
  ELSE IF validateTokenFromCache(t) # 0
  THEN CHOOSE s \in FindById(validateTokenFromCache(t)) : TRUE
  ELSE validateTokenFromDatabase(t, S)

\* AuthService.validateSession: its effect on the cache (invalidateAccessToken
\* after a failed hash check, recacheSession after a database match)
validateSessionCache(t, S) ==
  LET q == getTokenPrefix(t)
      found == validateSessionResult(t, S)
      purged == IF CacheEntryPurged(t)
                THEN [accessCache EXCEPT ![q] = NoEntry]
                ELSE accessCache
  IN accessCache' =
       IF ~validateTokenFormat(t) \/ validateTokenFromCache(t) # 0
       THEN accessCache
       ELSE IF found.id # 0
            THEN setex(purged, q,
                       Min(found.expiresAt - now, sessionTtl), found.id)
            ELSE purged

\* a call of AuthService.validateSession from outside a guarded route
validateSession(t) ==
  /\ \E S \in RecentSessions : validateSessionCache(t, S)
  /\ UNCHANGED <<now, sessions, nextSid, nextTok, refreshCache, refreshCount,
                 refresher, issued, revokedOne, revokedAll, rotated>>
  /\ UNCHANGED <<queueVars, otpVars, scoreVars, guardVars, signalVars,
                 cleanupVars, rateVars>>

\* delete with the ownership condition inverted
DeletedBySessionOtherUser(u, sid) ==
  {s \in sessions : s.id = sid /\ s.userId # u}

\* delete without the ownership condition
DeletedBySessionAnyUser(u, sid) == {s \in sessions : s.id = sid}

\* the rows deleteSession removes: delete({ id: sessionId, userId })
DeletedBySession(u, sid) == {s \in sessions : s.id = sid /\ s.userId = u}

\* AuthService.deleteSession (the cache is left alone)
deleteSession(u, sid) ==
  /\ sessions' = sessions \ DeletedBySession(u, sid)
  /\ revokedOne' = revokedOne \cup
       {i.tok : i \in {j \in issued :
                         /\ j.kind = "access" /\ j.sid = sid /\ j.userId = u
                         /\ \E s \in sessions : s.id = sid /\ s.userId = u}}
  /\ UNCHANGED <<now, nextSid, nextTok, accessCache, refreshCache,
                 refreshCount, refresher, issued, revokedAll, rotated>>
  /\ UNCHANGED <<queueVars, otpVars, scoreVars, guardVars, signalVars,
                 cleanupVars, rateVars>>

\* delete limited to the user's expired rows
DeletedByUserExpiredOnly(u) ==
  {s \in sessions : s.userId = u /\ s.expiresAt < now}

\* the rows deleteAllUserSessions removes: delete({ userId })
DeletedByUser(u) == {s \in sessions : s.userId = u}

\* AuthService.deleteAllUserSessions (the cache is left alone)
deleteAllUserSessions(u) ==
  /\ sessions' = sessions \ DeletedByUser(u)
  /\ revokedAll' = revokedAll \cup
       {i.tok : i \in {j \in issued : j.kind = "access" /\ j.userId = u}}
  /\ UNCHANGED <<now, nextSid, nextTok, accessCache, refreshCache,
                 refreshCount, refresher, issued, revokedOne, rotated>>
  /\ UNCHANGED <<queueVars, otpVars, scoreVars, guardVars, signalVars,
                 cleanupVars, rateVars>>

\* find({ where: { expiresAt: MoreThan(now) }, take: BULK_REFRESH_LOOKUP_LIMIT })
BulkSessions ==
  {S \in SUBSET Live :
     Cardinality(S) = Min(BULK_REFRESH_LOOKUP_LIMIT, Cardinality(Live))}

\* AuthService.findSessionByRefreshToken over the rows S of the fallback
findSessionByRefreshToken(rt, S) ==
  LET e == get(refreshCache, getTokenPrefix(rt))
      C == {s \in FindById(e.sid) :
              /\ e.sid # 0
              /\ s.expiresAt > now
              /\ verifyToken(rt, s.refreshTokenHash)}
      D == {s \in S : verifyToken(rt, s.refreshTokenHash)}
  IN IF C # {} THEN CHOOSE s \in C : TRUE
     ELSE IF D # {} THEN CHOOSE s \in D : TRUE
     ELSE NoSession

refreshOutcomeCapped(count) ==
  IF count > TOKEN_REFRESH_THRESHOLD_PER_HOUR THEN "throw" ELSE "return"
\* checkRefreshFrequency: how it ends once the counter was incremented to
\* count; the count is only logged
refreshOutcome(count) == "return"

\* checkRefreshFrequency: refreshCount > TOKEN_REFRESH_THRESHOLD_PER_HOUR
frequentRefresh(count) == count > TOKEN_REFRESH_THRESHOLD_PER_HOUR

\* AuthService.refreshSession up to the database write: locate the session,
\* checkRefreshFrequency, generateToken, session.tokenHash = newTokenHash
refreshFind(rt) ==
  /\ refresher.pc = "idle"
  /\ \E S \in BulkSessions, q \in {PrefixOfDraw(nextTok)} :
       LET session == findSessionByRefreshToken(rt, S)
           newAccessToken == [n |-> nextTok, p |-> q]
           n == refreshCount[session.userId] + 1
       IN /\ session # NoSession
          /\ refreshCount' = [refreshCount EXCEPT ![session.userId] = n]
          /\ audit' = IF frequentRefresh(n)
                      THEN audit \cup
                             {"Unusually frequent token refresh pattern detected"}
                      ELSE audit
          /\ IF refreshOutcome(n) = "return"
             THEN /\ refresher' =
                       [pc |-> "save",
                        session |-> [session EXCEPT
                                       !.tokenHash = bcryptHash(newAccessToken)],
                        token |-> newAccessToken, count |-> n]
                  /\ nextTok' = nextTok + 1
                  /\ thrown' = thrown
             ELSE /\ thrown' = thrown \cup
                       {[op |-> "refreshSession", cause |-> "count"]}
                  /\ UNCHANGED <<refresher, nextTok>>
  /\ UNCHANGED <<now, sessions, nextSid, accessCache, refreshCache,
                 issued, revokedOne, revokedAll, rotated>>
  /\ UNCHANGED <<queueVars, otpVars, scoreVars, guardVars, cleanupVars,
                 rateVars>>

\* refreshSession when incrementRefreshFrequency rejects: redisService.incr
\* logs and throws again, checkRefreshFrequency and refreshSession do not
\* catch
refreshFrequencyFails(rt) ==
  /\ refresher.pc = "idle"
  /\ \E S \in BulkSessions : findSessionByRefreshToken(rt, S) # NoSession
  /\ thrown' = thrown \cup {[op |-> "refreshSession", cause |-> "cache"]}
  /\ UNCHANGED audit
  /\ UNCHANGED <<queueVars, sessionVars, otpVars, scoreVars, guardVars,
                 cleanupVars, rateVars>>

\* createSession when the find of checkConcurrentSessions rejects: neither
\* checkConcurrentSessions nor createSession catches
createSessionFails(u) ==
  /\ thrown' = thrown \cup {[op |-> "createSession", cause |-> "database"]}
  /\ UNCHANGED audit
  /\ UNCHANGED <<queueVars, sessionVars, otpVars, scoreVars, guardVars,
                 cleanupVars, rateVars>>

\* generateNewAccessToken: sessionRepository.save(session).  save() writes
\* the row under its id, inserting it again when it was deleted meanwhile.
refreshSave ==
  /\ refresher.pc = "save"
  /\ sessions' = (sessions \ FindById(refresher.session.id))
                    \cup {refresher.session}
  /\ rotated' = rotated \cup AccessTokensOf({refresher.session.id})
  /\ refresher' = [refresher EXCEPT !.pc = "cache"]
  /\ UNCHANGED <<now, nextSid, nextTok, accessCache, refreshCache,
                 refreshCount, issued, revokedOne, revokedAll>>
  /\ UNCHANGED <<queueVars, otpVars, scoreVars, guardVars, signalVars,
                 cleanupVars, rateVars>>

\* generateNewAccessToken: cacheAccessToken(newTokenPrefix, session.id,
\* accessTokenTtl); refreshSession returns the new access token
refreshCache_ ==
  /\ refresher.pc = "cache"
  /\ accessCache' = setex(accessCache, getTokenPrefix(refresher.token),
                          accessTokenTtl, refresher.session.id)
  /\ issued' = issued \cup
       {[tok |-> refresher.token, sid |-> refresher.session.id,
         userId |-> refresher.session.userId, kind |-> "access",
         via |-> "refresh"]}
  /\ refresher' = IdleRefresher
  /\ UNCHANGED <<now, sessions, nextSid, nextTok, refreshCache, refreshCount,
                 revokedOne, revokedAll, rotated>>
  /\ UNCHANGED <<queueVars, otpVars, scoreVars, guardVars, signalVars,
                 cleanupVars, rateVars>>

(***************************************************************************)
(* Scheduled cleanup: SessionCleanupService                                *)
(***************************************************************************)
\* count: expiredSessions.length of the run; removed: the rows its delete
\* took away
IdleCleanup == [pc |-> "idle", count |-> 0, removed |-> {}]

InitCleanup == cleanup = IdleCleanup

ExpiredOrDue(t) == {s \in sessions : s.expiresAt <= t}

\* the rows matching { expiresAt: LessThan(t) }
Expired(t) == {s \in sessions : s.expiresAt < t}

\* cleanupExpiredSessions up to its second await: find the expired rows,
\* return 0 when there is none
cleanupFind ==
  /\ cleanup.pc = "idle"
  /\ cleanup' = [pc |-> IF Expired(now) = {} THEN "idle" ELSE "delete",
                 count |-> Cardinality(Expired(now)), removed |-> {}]
  /\ UNCHANGED <<queueVars, sessionVars, otpVars, scoreVars, guardVars,
                 signalVars, rateVars>>

\* cleanupExpiredSessions from its second await on:
\* delete({ expiresAt: LessThan(new Date()) }), then the count is logged
cleanupDelete ==
  /\ cleanup.pc = "delete"
  /\ sessions' = sessions \ Expired(now)
  /\ cleanup' = [cleanup EXCEPT !.pc = "idle", !.removed = Expired(now)]
  /\ UNCHANGED <<now, nextSid, nextTok, accessCache, refreshCache,
                 refreshCount, refresher, issued, revokedOne,
                 revokedAll, rotated>>
  /\ UNCHANGED <<queueVars, otpVars, scoreVars, guardVars, signalVars,
                 rateVars>>

\* a key set with SETEX is gone once its time to live has elapsed
Expire(cache, t) ==
  [q \in DOMAIN cache |-> IF cache[q].exp <= t THEN NoEntry ELSE cache[q]]

\* tokens a client can present
Presentable == {i.tok : i \in issued} \cup Forged \cup {BadToken}

(***************************************************************************)
(* Guarded routes: AuthGuard                                               *)
(***************************************************************************)
Ips == 1..NumIps
UserAgents == 1..NumUserAgents
NoToken == [n |-> None, p |-> None]
NoUser == [userId |-> 0, sessionId |-> 0]

\* the Authorization header split at the blank: its type and its token;
\* type "" is a request without the header
Headers ==
  {[type |-> "", token |-> NoToken]} \cup
  [type : {"Basic", "Bearer"}, token : Presentable \cup {NoToken}]

IdleRequest == [authorization |-> [type |-> "", token |-> NoToken],
                ip |-> None, userAgent |-> None, pc |-> "none",
                called |-> FALSE, session |-> NoSession, reply |-> "",
                user |-> NoUser, logged |-> ""]

InitGuardIdle ==
  /\ request = IdleRequest
  /\ enableIpValidation = FALSE
  /\ enableUserAgentValidation = FALSE

InitGuard ==
  /\ request = IdleRequest
  /\ enableIpValidation \in BOOLEAN
  /\ enableUserAgentValidation \in BOOLEAN

extractTokenAnyType(h) == h.token
\* extractTokenFromHeader: type === 'Bearer' ? token : undefined
extractTokenFromHeader(h) == IF h.type = "Bearer" THEN h.token ELSE NoToken

ipMismatchNever(session, currentIp) == FALSE
\* enableIpValidation && session.ipAddress, currentIp, and
\* session.ipAddress !== currentIp
ipMismatch(session, currentIp) ==
  /\ enableIpValidation /\ session.ipAddress # None
  /\ currentIp # None /\ session.ipAddress # currentIp

\* enableUserAgentValidation && session.userAgent, currentUserAgent, and
\* session.userAgent !== currentUserAgent
userAgentMismatch(session, currentUserAgent) ==
  /\ enableUserAgentValidation /\ session.userAgent # None
  /\ currentUserAgent # None /\ session.userAgent # currentUserAgent

\* canActivate once validateSession has returned session
guardDecision(r, session) ==
  IF session = NoSession
  THEN [r EXCEPT !.reply = "INVALID_OR_EXPIRED_TOKEN"]
  ELSE IF ipMismatch(session, r.ip)
  THEN [r EXCEPT !.reply = "SESSION_IP_MISMATCH",
                 !.logged = "IP address mismatch detected"]
  ELSE [r EXCEPT !.reply = "pass",
                 !.user = [userId |-> session.userId,
                           sessionId |-> session.id],
                 !.logged = IF userAgentMismatch(session, r.userAgent)
                            THEN "User agent mismatch detected" ELSE ""]

\* AuthGuard.canActivate on a request with the header h from the address ip
\* and the user agent ua
canActivate(h, ip, ua) ==
  LET token == extractTokenFromHeader(h)
      r == [IdleRequest EXCEPT !.authorization = h, !.ip = ip,
                               !.userAgent = ua, !.pc = "done"]
  IN /\ request.pc = "none"
     /\ IF token = NoToken
        THEN /\ request' = [r EXCEPT !.reply = "MISSING_ACCESS_TOKEN",
                                     !.logged = "Missing or malformed authorization header"]
             /\ accessCache' = accessCache
        ELSE \E S \in RecentSessions :
               /\ validateSessionCache(token, S)
               /\ request' =
                    guardDecision([r EXCEPT !.called = TRUE,
                                            !.session =
                                              validateSessionResult(token, S)],
                                  validateSessionResult(token, S))
     /\ UNCHANGED <<now, sessions, nextSid, nextTok, refreshCache,
                    refreshCount, refresher, issued, revokedOne, revokedAll,
                    rotated, enableIpValidation, enableUserAgentValidation>>
     /\ UNCHANGED <<queueVars, otpVars, scoreVars, signalVars, cleanupVars,
                    rateVars>>

(***************************************************************************)
(* One-time codes: OtpService                                              *)
(***************************************************************************)
Phones == 1..NumPhones
Codes == 1..NumCodes
Reqs == 1..MaxReq
SpikeReqs == 1..SpikeSize

NoOtp == [code |-> 0, expiresAt |-> 0, exp |-> 0]
NoCounter == [n |-> 0, exp |-> 0]
NoRun == [n |-> 0, since |-> 0]
\* otpData before getStoredOtp has run
Unread == [code |-> None, expiresAt |-> None, exp |-> None]
\* at: when the call read its first key; setAt: when sendOtp wrote
\* otp:send:limit
IdleReq == [pc |-> "idle", phone |-> 0, code |-> 0, attempts |-> 0,
            expiresAt |-> 0, seen |-> Unread, at |-> 0, setAt |-> 0,
            reply |-> ""]

InitOtp ==
  /\ otpKey = [p \in Phones |-> NoOtp]
  /\ sendLimitKey = [p \in Phones |-> 0]
  /\ lastRequestKey = [p \in Phones |-> 0]
  /\ attemptKey = [p \in Phones |-> NoCounter]
  /\ req = [r \in Reqs \cup SpikeReqs |-> IdleReq]
  /\ consumed = [p \in Phones |-> 0]
  /\ verifyRun = [p \in Phones |-> NoRun]
  /\ sendCalls = 0
  /\ verifyCalls = 0
  /\ sendOk = <<>>
  /\ accepted = <<>>

\* a request arrives at POST /auth/send-otp: sendOtp(phone, ip, userAgent);
\* the normalized phone goes to checkUnusualPhonePattern only, every cache
\* key of the call is built from phone
sendOtp(r, p) ==
  /\ req[r].pc = "idle"
  /\ sendCalls' = sendCalls + 1
  /\ req' = [req EXCEPT ![r] = [IdleReq EXCEPT !.pc = "s_limit", !.phone = p]]
  /\ UNCHANGED <<consumed, verifyRun, otpKey, sendLimitKey, lastRequestKey,
                 attemptKey,
                 verifyCalls, sendOk, accepted>>
  /\ UNCHANGED <<queueVars, sessionVars, scoreVars, guardVars, signalVars,
                 cleanupVars, rateVars>>

isLimitedNever(limit, p) == FALSE
\* checkRateLimits: isLimited, the value under otp:send:limit:{phone}
isLimited(limit, p) == limit[p] # 0

\* checkRateLimits: get(otp:send:limit:{phone}) -> EXCEEDED_SEND_LIMIT
checkSendLimit(r) ==
  /\ req[r].pc = "s_limit"
  /\ req' = [req EXCEPT ![r] =
               IF isLimited(sendLimitKey, req[r].phone)
               THEN [@ EXCEPT !.pc = "s_reply", !.at = now,
                              !.reply = "EXCEEDED_SEND_LIMIT"]
               ELSE [@ EXCEPT !.pc = "s_last", !.at = now]]
  /\ UNCHANGED <<consumed, verifyRun, otpKey, sendLimitKey, lastRequestKey,
                 attemptKey,
                 sendCalls, verifyCalls, sendOk, accepted>>
  /\ UNCHANGED <<queueVars, sessionVars, scoreVars, guardVars, signalVars,
                 cleanupVars, rateVars>>

\* checkRateLimits: get(otp:last_request:{phone}) ->
\* PLEASE_WAIT_BEFORE_NEXT_REQUEST; then generateOtpCode, and storeOtp up
\* to its await: expiresAt = Date.now() + expirySeconds * 1000
checkLastRequest(r) ==
  /\ req[r].pc = "s_last"
  /\ \E c \in Codes :
       req' = [req EXCEPT ![r] =
                 IF lastRequestKey[req[r].phone] # 0
                 THEN [@ EXCEPT !.pc = "s_reply",
                                !.reply = "PLEASE_WAIT_BEFORE_NEXT_REQUEST"]
                 ELSE [@ EXCEPT !.pc = "s_store", !.code = c,
                                !.expiresAt = now + expirySeconds]]
  /\ UNCHANGED <<consumed, verifyRun, otpKey, sendLimitKey, lastRequestKey,
                 attemptKey,
                 sendCalls, verifyCalls, sendOk, accepted>>
  /\ UNCHANGED <<queueVars, sessionVars, scoreVars, guardVars, signalVars,
                 cleanupVars, rateVars>>

\* storeOtp: setex(otp:phone:{phone}, expirySeconds, {code, expiresAt, ..})
\* the time to live runs from the moment the cache executes the command
storeOtp(r) ==
  /\ req[r].pc = "s_store"
  /\ otpKey' = [otpKey EXCEPT ![req[r].phone] =
                  [code |-> req[r].code, expiresAt |-> req[r].expiresAt,
                   exp |-> now + expirySeconds]]
  /\ consumed' = [consumed EXCEPT ![req[r].phone] = 0]
  /\ verifyRun' = verifyRun
  /\ req' = [req EXCEPT ![r].pc = "s_set1"]
  /\ UNCHANGED <<sendLimitKey, lastRequestKey, attemptKey,
                 sendCalls, verifyCalls, sendOk, accepted>>
  /\ UNCHANGED <<queueVars, sessionVars, scoreVars, guardVars, signalVars,
                 cleanupVars, rateVars>>

\* setRateLimitKeys: setex(otp:send:limit:{phone}, cooldownSeconds, '1')
setSendLimitKey(r) ==
  /\ req[r].pc = "s_set1"
  /\ sendLimitKey' = [sendLimitKey EXCEPT ![req[r].phone] =
                        now + sendCooldownSeconds]
  /\ req' = [req EXCEPT ![r].pc = "s_set2", ![r].setAt = now]
  /\ UNCHANGED <<consumed, verifyRun, otpKey, lastRequestKey, attemptKey,
                 sendCalls, verifyCalls, sendOk, accepted>>
  /\ UNCHANGED <<queueVars, sessionVars, scoreVars, guardVars, signalVars,
                 cleanupVars, rateVars>>

\* setRateLimitKeys: setex(otp:last_request:{phone}, cooldownSeconds, '1')
setLastRequestKey(r) ==
  /\ req[r].pc = "s_set2"
  /\ lastRequestKey' = [lastRequestKey EXCEPT ![req[r].phone] =
                          now + sendCooldownSeconds]
  /\ req' = [req EXCEPT ![r].pc = "s_sms"]
  /\ UNCHANGED <<consumed, verifyRun, otpKey, sendLimitKey, attemptKey,
                 sendCalls, verifyCalls, sendOk, accepted>>
  /\ UNCHANGED <<queueVars, sessionVars, scoreVars, guardVars, signalVars,
                 cleanupVars, rateVars>>

\* smsService.sendOtpSms, then sendOtp returns: the call succeeded
sendOtpReturn(r) ==
  /\ req[r].pc = "s_sms"
  /\ sendOk' = Append(sendOk, [phone |-> req[r].phone, at |-> now,
                               setAt |-> req[r].setAt])
  /\ req' = [req EXCEPT ![r] = IdleReq]
  /\ UNCHANGED <<consumed, verifyRun, otpKey, sendLimitKey, lastRequestKey,
                 attemptKey,
                 sendCalls, verifyCalls, accepted>>
  /\ UNCHANGED <<queueVars, sessionVars, scoreVars, guardVars, signalVars,
                 cleanupVars, rateVars>>

\* checkRateLimits threw: sendOtp rejects with the TooManyRequestsException
sendOtpThrow(r) ==
  /\ req[r].pc = "s_reply"
  /\ req' = [req EXCEPT ![r] = IdleReq]
  /\ UNCHANGED <<consumed, verifyRun, otpKey, sendLimitKey, lastRequestKey,
                 attemptKey,
                 sendCalls, verifyCalls, sendOk, accepted>>
  /\ UNCHANGED <<queueVars, sessionVars, scoreVars, guardVars, signalVars,
                 cleanupVars, rateVars>>

\* a request arrives at POST /auth/verify-otp: verifyOtp(phone, code)
verifyOtp(r, p, c) ==
  /\ req[r].pc = "idle"
  /\ verifyCalls' = verifyCalls + 1
  /\ req' = [req EXCEPT ![r] =
               [IdleReq EXCEPT !.pc = "v_incr", !.phone = p, !.code = c]]
  /\ UNCHANGED <<otpKey, sendLimitKey, lastRequestKey, attemptKey, consumed,
                 verifyRun,
                 sendCalls, sendOk, accepted>>
  /\ UNCHANGED <<queueVars, sessionVars, scoreVars, guardVars, signalVars,
                 cleanupVars, rateVars>>

\* checkVerifyAttempts: attempts = incr(otp:verify:attempts:{phone});
\* INCR creates the key without a time to live and keeps an existing one
incrAttempts(r) ==
  /\ req[r].pc = "v_incr"
  /\ LET k == attemptKey[req[r].phone]
         n == k.n + 1
     IN /\ attemptKey' = [attemptKey EXCEPT ![req[r].phone] =
                            [n |-> n, exp |-> IF k.n = 0 THEN None ELSE k.exp]]
        /\ req' = [req EXCEPT ![r].pc = "v_expire", ![r].attempts = n]
  /\ verifyRun' = [verifyRun EXCEPT ![req[r].phone] =
                     IF @.n = 0 \/ now >= @.since + verifyWindowSeconds
                     THEN [n |-> 1, since |-> now]
                     ELSE [@ EXCEPT !.n = @ + 1]]
  /\ UNCHANGED <<otpKey, sendLimitKey, lastRequestKey, consumed,
                 sendCalls, verifyCalls, sendOk, accepted>>
  /\ UNCHANGED <<queueVars, sessionVars, scoreVars, guardVars, signalVars,
                 cleanupVars, rateVars>>

CapExceededLate(attempts) == attempts > MAX_VERIFY_ATTEMPTS + 1
\* checkVerifyAttempts: attempts > maxAttempts
CapExceeded(attempts) == attempts > MAX_VERIFY_ATTEMPTS

\* checkVerifyAttempts: expire(attemptKey, verifyWindowSeconds); then
\* attempts > maxAttempts -> EXCEEDED_VERIFICATION_ATTEMPTS, else the call
\* goes on to the stored-code lookup
expireAttempts(r) ==
  /\ req[r].pc = "v_expire"
  /\ LET p == req[r].phone
     IN attemptKey' =
          IF attemptKey[p].n = 0 THEN attemptKey
          ELSE [attemptKey EXCEPT ![p].exp = now + verifyWindowSeconds]
  /\ IF CapExceeded(req[r].attempts)
     THEN /\ req' = [req EXCEPT ![r].pc = "v_reply",
                                ![r].reply = "EXCEEDED_VERIFICATION_ATTEMPTS"]
          /\ accepted' = accepted
     ELSE /\ req' = [req EXCEPT ![r].pc = "v_get"]
          /\ accepted' = Append(accepted, [phone |-> req[r].phone, at |-> now])
  /\ UNCHANGED <<otpKey, sendLimitKey, lastRequestKey, consumed, verifyRun,
                 sendCalls, verifyCalls, sendOk>>
  /\ UNCHANGED <<queueVars, sessionVars, scoreVars, guardVars, signalVars,
                 cleanupVars, rateVars>>

VerifyOutcomeCodeFirst(otpData, code, t) ==
  IF otpData = NoOtp THEN "OTP_NOT_FOUND_OR_EXPIRED"
  ELSE IF otpData.code # code THEN "INVALID_OTP_CODE"
  ELSE IF t > otpData.expiresAt THEN "OTP_EXPIRED"
  ELSE "userId"

\* the checks of verifyOtp on what get(otpKey) returned at time t:
\* getStoredOtp, validateOtpExpiration, validateOtpCode
VerifyOutcome(otpData, code, t) ==
  IF otpData = NoOtp THEN "OTP_NOT_FOUND_OR_EXPIRED"
  ELSE IF t > otpData.expiresAt THEN "OTP_EXPIRED"
  ELSE IF otpData.code # code THEN "INVALID_OTP_CODE"
  ELSE "userId"

delNoop(k, p, none) == k

\* RedisService.del(key)
del(k, p, none) == [k EXCEPT ![p] = none]

\* getStoredOtp (OTP_NOT_FOUND_OR_EXPIRED), validateOtpExpiration
\* (OTP_EXPIRED, deleting the key), validateOtpCode (INVALID_OTP_CODE)
getStoredOtp(r) ==
  /\ req[r].pc = "v_get"
  /\ LET p == req[r].phone
         otpData == otpKey[p]
         outcome == VerifyOutcome(otpData, req[r].code, now)
     IN /\ req' = [req EXCEPT
                     ![r].seen = otpData,
                     ![r].at = now,
                     ![r].pc = IF outcome = "userId" THEN "v_del1"
                               ELSE "v_reply",
                     ![r].reply = IF outcome = "userId" THEN "" ELSE outcome]
        /\ otpKey' = IF outcome = "OTP_EXPIRED" THEN del(otpKey, p, NoOtp)
                     ELSE otpKey
  /\ UNCHANGED <<sendLimitKey, lastRequestKey, attemptKey, consumed, verifyRun,
                 sendCalls, verifyCalls, sendOk, accepted>>
  /\ UNCHANGED <<queueVars, sessionVars, scoreVars, guardVars, signalVars,
                 cleanupVars, rateVars>>

\* cleanupOtpData: del(otpKey)
delOtpKey(r) ==
  /\ req[r].pc = "v_del1"
  /\ otpKey' = del(otpKey, req[r].phone, NoOtp)
  /\ req' = [req EXCEPT ![r].pc = "v_del2"]
  /\ UNCHANGED <<sendLimitKey, lastRequestKey, attemptKey, consumed, verifyRun,
                 sendCalls, verifyCalls, sendOk, accepted>>
  /\ UNCHANGED <<queueVars, sessionVars, scoreVars, guardVars, signalVars,
                 cleanupVars, rateVars>>

\* cleanupOtpData: del(attemptKey); then findOrCreateUser
delAttemptKey(r) ==
  /\ req[r].pc = "v_del2"
  /\ attemptKey' = del(attemptKey, req[r].phone, NoCounter)
  /\ req' = [req EXCEPT ![r].pc = "v_reply", ![r].reply = "userId"]
  /\ UNCHANGED <<otpKey, sendLimitKey, lastRequestKey, consumed, verifyRun,
                 sendCalls, verifyCalls, sendOk, accepted>>
  /\ UNCHANGED <<queueVars, sessionVars, scoreVars, guardVars, signalVars,
                 cleanupVars, rateVars>>

\* verifyOtp returns { userId } or rejects with its error
verifyOtpReturn(r) ==
  /\ req[r].pc = "v_reply"
  /\ consumed' = IF req[r].reply = "userId"
                 THEN [consumed EXCEPT ![req[r].phone] = req[r].code]
                 ELSE consumed
  /\ verifyRun' = IF req[r].reply = "userId"
                  THEN [verifyRun EXCEPT ![req[r].phone] = NoRun]
                  ELSE verifyRun
  /\ req' = [req EXCEPT ![r] = IdleReq]
  /\ UNCHANGED <<otpKey, sendLimitKey, lastRequestKey, attemptKey,
                 sendCalls, verifyCalls, sendOk, accepted>>
  /\ UNCHANGED <<queueVars, sessionVars, scoreVars, guardVars, signalVars,
                 cleanupVars, rateVars>>

\* a key with a time to live is gone once it has elapsed
ExpireFlag(k, t) == [p \in DOMAIN k |-> IF k[p] <= t THEN 0 ELSE k[p]]
ExpireOtp(k, t) ==
  [p \in DOMAIN k |-> IF k[p] # NoOtp /\ k[p].exp <= t THEN NoOtp ELSE k[p]]
ExpireCounter(k, t) ==
  [p \in DOMAIN k |->
     IF k[p].n # 0 /\ k[p].exp # None /\ k[p].exp <= t THEN NoCounter
     ELSE k[p]]

\* the steps of the requests in the slots R, with at most maxVerify
\* verifyOtp calls
NextOtpSteps(R, maxVerify) ==
  \/ \E r \in R, p \in Phones : sendCalls < MaxSend /\ sendOtp(r, p)
  \/ \E r \in R : checkSendLimit(r)
  \/ \E r \in R : checkLastRequest(r)
  \/ \E r \in R : storeOtp(r)
  \/ \E r \in R : setSendLimitKey(r)
  \/ \E r \in R : setLastRequestKey(r)
  \/ \E r \in R : sendOtpReturn(r)
  \/ \E r \in R : sendOtpThrow(r)
  \/ \E r \in R, p \in Phones, c \in Codes :
       verifyCalls < maxVerify /\ verifyOtp(r, p, c)
  \/ \E r \in R : incrAttempts(r)
  \/ \E r \in R : expireAttempts(r)
  \/ \E r \in R : getStoredOtp(r)
  \/ \E r \in R : delOtpKey(r)
  \/ \E r \in R : delAttemptKey(r)
  \/ \E r \in R : verifyOtpReturn(r)

(***************************************************************************)
(* RateLimitingGuard.canActivate: INCR of the address's counter, EXPIRE    *)
(* when the INCR returned 1, then the comparison with maxRequests.  The    *)
(* two cache commands are separate awaited calls.                          *)
(***************************************************************************)
IdleRateCall == [pc |-> "idle", ip |-> 0, requests |-> 0, out |-> "none"]

InitRate ==
  /\ rateLimitKey = [ip \in Ips |-> NoCounter]
  /\ rateCall = [c \in Reqs |-> IdleRateCall]
  /\ rateCalls = 0
  /\ rateAdmitted = [ip \in Ips |-> 0]

\* if (requests > maxRequests) throw TooManyRequestsException; return true
decide(requests) ==
  IF requests > maxRequests THEN "rejected" ELSE "admitted"

\* const requests = await this.redisService.incr(key); a call whose INCR
\* did not return 1 goes on to the comparison without another await
canActivateIncr(c, ip) ==
  /\ rateCall[c].pc = "idle"
  /\ rateCalls < MaxRateCalls
  /\ rateCalls' = rateCalls + 1
  /\ LET requests == rateLimitKey[ip].n + 1
     IN /\ rateLimitKey' =
             [rateLimitKey EXCEPT
                ![ip] = IF rateLimitKey[ip].n = 0
                        THEN [n |-> 1, exp |-> None]
                        ELSE [@ EXCEPT !.n = requests]]
        /\ IF requests = 1
           THEN /\ rateCall' = [rateCall EXCEPT
                                  ![c] = [pc |-> "expire", ip |-> ip,
                                          requests |-> requests,
                                          out |-> "none"]]
                /\ rateAdmitted' = [rateAdmitted EXCEPT ![ip] = 0]
           ELSE /\ rateCall' = [rateCall EXCEPT
                                  ![c] = [pc |-> "idle", ip |-> ip,
                                          requests |-> requests,
                                          out |-> decide(requests)]]
                /\ rateAdmitted' =
                     [rateAdmitted EXCEPT
                        ![ip] = IF decide(requests) = "admitted"
                                THEN @ + 1 ELSE @]
  /\ UNCHANGED <<queueVars, sessionVars, otpVars, scoreVars, guardVars,
                 signalVars, cleanupVars>>

\* await this.redisService.expire(key, windowSeconds), then the comparison
canActivateExpire(c) ==
  /\ rateCall[c].pc = "expire"
  /\ LET ip == rateCall[c].ip
     IN /\ rateLimitKey' =
             [rateLimitKey EXCEPT
                ![ip] = IF @.n = 0 THEN @
                        ELSE [@ EXCEPT !.exp = now + windowSeconds]]
        /\ rateCall' = [rateCall EXCEPT
                          ![c] = [@ EXCEPT !.pc = "idle",
                                           !.out = decide(rateCall[c].requests)]]
        /\ rateAdmitted' =
             [rateAdmitted EXCEPT
                ![ip] = IF decide(rateCall[c].requests) = "admitted"
                        THEN @ + 1 ELSE @]
  /\ UNCHANGED rateCalls
  /\ UNCHANGED <<queueVars, sessionVars, otpVars, scoreVars, guardVars,
                 signalVars, cleanupVars>>

\* RedisService.expire logs and rethrows what the client rejected with;
\* canActivate has no try/catch, so the request fails and the key stays
\* as the INCR left it
canActivateExpireRejects(c) ==
  /\ rateCall[c].pc = "expire"
  /\ rateCall' = [rateCall EXCEPT ![c] = [@ EXCEPT !.pc = "idle",
                                                   !.out = "error"]]
  /\ UNCHANGED <<rateLimitKey, rateCalls, rateAdmitted>>
  /\ UNCHANGED <<queueVars, sessionVars, otpVars, scoreVars, guardVars,
                 signalVars, cleanupVars>>

\* the clock advances; keys whose time to live has elapsed disappear
Tick ==
  /\ now < MaxTime
  /\ now' = now + 1
  /\ accessCache' = Expire(accessCache, now + 1)
  /\ refreshCache' = Expire(refreshCache, now + 1)
  /\ otpKey' = ExpireOtp(otpKey, now + 1)
  /\ sendLimitKey' = ExpireFlag(sendLimitKey, now + 1)
  /\ lastRequestKey' = ExpireFlag(lastRequestKey, now + 1)
  /\ attemptKey' = ExpireCounter(attemptKey, now + 1)
  /\ rateLimitKey' = ExpireCounter(rateLimitKey, now + 1)
  /\ UNCHANGED <<sessions, nextSid, nextTok, refreshCount, refresher,
                 issued, revokedOne, revokedAll, rotated, req, consumed,
                 verifyRun,
                 sendCalls, verifyCalls, sendOk, accepted>>
  /\ UNCHANGED <<rateCall, rateCalls, rateAdmitted>>
  /\ UNCHANGED <<queueVars, scoreVars, guardVars, signalVars, cleanupVars>>


\* refreshSession calls started so far
RefreshCalls ==
  Cardinality({i \in issued : i.via = "refresh"})
    + (IF refresher.pc = "idle" THEN 0 ELSE 1)

NextSession ==
  \/ \E u \in Users : nextSid <= MaxSessions /\ createSession(u, 1, 1)
  \/ \E t \in Presentable : validateSession(t)
  \/ \E u \in Users, sid \in 1..MaxSessions : deleteSession(u, sid)
  \/ \E u \in Users : deleteAllUserSessions(u)
  \/ \E rt \in Presentable : RefreshCalls < MaxRefresh /\ refreshFind(rt)
  \/ refreshSave
  \/ refreshCache_
  \/ cleanupFind
  \/ cleanupDelete
  \/ Tick

\* many devices logged in: the session service without deletions
NextSessionMany ==
  \/ \E u \in Users : nextSid <= ManySessions /\ createSession(u, 1, 1)
  \/ \E t \in Presentable : validateSession(t)
  \/ \E rt \in Presentable : RefreshCalls < MaxRefresh /\ refreshFind(rt)
  \/ refreshSave
  \/ refreshCache_
  \/ Tick

\* the users of SpecLogout: one more than elsewhere, so that a session id
\* can be presented by a user who does not own it
LogoutUsers == 1..(NumUsers + 1)

\* several users logging in and out, with session ids that exist, that
\* belong to someone else, and that do not exist
NextLogout ==
  \/ \E u \in LogoutUsers : nextSid <= FewSessions /\ createSession(u, 1, 1)
  \/ \E u \in LogoutUsers, sid \in 1..(FewSessions + 1) : deleteSession(u, sid)
  \/ Tick

\* logins over time and the cleanup job
NextCleanup ==
  \/ \E u \in Users : nextSid <= FewSessions /\ createSession(u, 1, 1)
  \/ cleanupFind
  \/ cleanupDelete
  \/ Tick

\* requests from a few addresses passing the rate-limiting guard over time
NextRateLimit ==
  \/ \E c \in Reqs, ip \in Ips : canActivateIncr(c, ip)
  \/ \E c \in Reqs : canActivateExpire(c)
  \/ \E c \in Reqs : canActivateExpireRejects(c)
  \/ Tick

\* the route handler ran with request.user, or the exception filter
\* answered 401: the request is over
respond ==
  /\ request.pc = "done"
  /\ request' = IdleRequest
  /\ UNCHANGED <<enableIpValidation, enableUserAgentValidation>>
  /\ UNCHANGED <<queueVars, sessionVars, otpVars, scoreVars, signalVars,
                 cleanupVars, rateVars>>

\* logins from any address and user agent, requests to guarded routes one
\* at a time, logouts, and the clock
NextGuard ==
  \/ \E u \in Users, ip \in Ips \cup {None}, ua \in UserAgents \cup {None} :
       nextSid <= MaxSessions /\ createSession(u, ip, ua)
  \/ \E h \in Headers, ip \in Ips \cup {None}, ua \in UserAgents \cup {None} :
       canActivate(h, ip, ua)
  \/ respond
  \/ \E u \in Users, sid \in 1..MaxSessions : deleteSession(u, sid)
  \/ Tick

\* the refresh counter of a user who has refreshed before, within the hour
RefreshCounts == {0, TOKEN_REFRESH_THRESHOLD_PER_HOUR - 1,
                  TOKEN_REFRESH_THRESHOLD_PER_HOUR,
                  TOKEN_REFRESH_THRESHOLD_PER_HOUR + 1}

InitSessionRefreshed ==
  /\ now = 0
  /\ sessions = {}
  /\ nextSid = 1
  /\ nextTok = 1
  /\ accessCache = [q \in Prefixes |-> NoEntry]
  /\ refreshCache = [q \in Prefixes |-> NoEntry]
  /\ refreshCount \in [Users -> RefreshCounts]
  /\ refresher = IdleRefresher
  /\ issued = {}
  /\ revokedOne = {}
  /\ revokedAll = {}
  /\ rotated = {}

\* logins and refreshes while the stores the signals use may fail
NextSignals ==
  \/ \E u \in Users : nextSid <= MaxSessions /\ createSession(u, 1, 1)
  \/ \E u \in Users : createSessionFails(u)
  \/ \E rt \in Presentable : RefreshCalls < MaxRefreshMany /\ refreshFind(rt)
  \/ \E rt \in Presentable : refreshFrequencyFails(rt)
  \/ refreshSave
  \/ refreshCache_
  \/ \E u \in Users, sid \in 1..MaxSessions : deleteSession(u, sid)
  \/ Tick

NextOtp ==
  \/ NextOtpSteps(Reqs, MaxVerify)
  \/ Tick

\* one client at a time, trying many codes
\* how far the verifyOtp call of slot r has got
Stage(r) ==
  CASE req[r].pc = "v_incr" -> 1
    [] req[r].pc = "v_expire" -> 2
    [] req[r].pc = "v_get" -> 3
    [] req[r].pc = "v_del1" -> 4
    [] req[r].pc = "v_del2" -> 5
    [] req[r].pc = "v_reply" -> 6
    [] OTHER -> IF r <= verifyCalls THEN 7 ELSE 0

\* the cache and the event loop serve the calls of a spike in their order
\* of arrival: a call does not overtake one that arrived before it
InOrder(r) == IF r = 1 THEN TRUE ELSE Stage(r - 1) > Stage(r)

\* a spike: one code is sent, then SpikeSize verifyOtp requests for the phone
\* arrive before any of them has reached the cache, and run interleaved at
\* their awaits; the spike is over before any time to live elapses
NextOtpSpike ==
  \/ \E p \in Phones : sendCalls = 0 /\ verifyCalls = 0 /\ sendOtp(1, p)
  \/ checkSendLimit(1)
  \/ checkLastRequest(1)
  \/ storeOtp(1)
  \/ setSendLimitKey(1)
  \/ setLastRequestKey(1)
  \/ sendOtpReturn(1)
  \/ \E r \in SpikeReqs, p \in Phones, c \in Codes :
       r = verifyCalls + 1 /\ req[1].pc \in {"idle", "v_incr"}
         /\ verifyOtp(r, p, c)
  \/ \E r \in SpikeReqs :
       verifyCalls = SpikeSize /\ InOrder(r) /\ incrAttempts(r)
  \/ \E r \in SpikeReqs : InOrder(r) /\ expireAttempts(r)
  \/ \E r \in SpikeReqs : InOrder(r) /\ getStoredOtp(r)
  \/ \E r \in SpikeReqs : InOrder(r) /\ delOtpKey(r)
  \/ \E r \in SpikeReqs : InOrder(r) /\ delAttemptKey(r)
  \/ \E r \in SpikeReqs : InOrder(r) /\ verifyOtpReturn(r)

NextOtpMany ==
  \/ NextOtpSteps({1}, ManyVerify)
  \/ Tick

\* the characters phone arguments are written with
PhoneDigits == {"0", "1", "8", "9"}

\* phone arguments as the client wrote them: a local number with and
\* without a dash, and a number with country code with and without "+"
PhoneTexts ==
  {<<"0", "9", "1">>, <<"0", "9", "-", "1">>,
   <<"9", "8", "1">>, <<"+", "9", "8", "1">>}

\* String.prototype.startsWith
startsWith(s, prefix) ==
  Len(s) >= Len(prefix) /\ SubSeq(s, 1, Len(prefix)) = prefix

\* phone.replace(/[^\d+]/g, '')
stripped(phone) ==
  SelectSeq(phone, LAMBDA c : c \in PhoneDigits \cup {"+"})

\* UserService.normalizePhoneNumber
normalizePhoneNumber(phone) ==
  LET normalized == stripped(phone)
  IN IF startsWith(normalized, <<"9", "8">>)
          /\ ~startsWith(normalized, <<"+", "9", "8">>)
     THEN <<"+">> \o normalized
     ELSE normalized

\* the cache before any call, its keys built from the phone argument as
\* written
InitOtpTexts ==
  /\ otpKey = [p \in PhoneTexts |-> NoOtp]
  /\ sendLimitKey = [p \in PhoneTexts |-> 0]
  /\ lastRequestKey = [p \in PhoneTexts |-> 0]
  /\ attemptKey = [p \in PhoneTexts |-> NoCounter]
  /\ req = [r \in Reqs \cup SpikeReqs |-> IdleReq]
  /\ consumed = [p \in PhoneTexts |-> 0]
  /\ verifyRun = [p \in PhoneTexts |-> NoRun]
  /\ sendCalls = 0
  /\ verifyCalls = 0
  /\ sendOk = <<>>
  /\ accepted = <<>>

\* one client after another asking for a code, writing the phone in any of
\* its forms
NextPhone ==
  \/ \E p \in PhoneTexts : sendCalls < MaxSend /\ sendOtp(1, p)
  \/ checkSendLimit(1)
  \/ checkLastRequest(1)
  \/ storeOtp(1)
  \/ setSendLimitKey(1)
  \/ setLastRequestKey(1)
  \/ sendOtpReturn(1)
  \/ sendOtpThrow(1)
  \/ Tick

(***************************************************************************)
(* Scoring: ScoringService                                                 *)
(***************************************************************************)
Teams == 1..NumTeams
Labels == 1..NumLabels
NoResult == [score |-> None, rule |-> ""]

\* SCORING_CONSTANTS.SCORES
SCORES == [ALL_CORRECT |-> 100, TWO_MISPLACED |-> 80, THREE_MISPLACED |-> 60,
           IRAN_GROUP_CORRECT |-> 50, PERFECT_GROUP |-> 40,
           THREE_CORRECT |-> 20, NO_MATCH |-> 0]

\* predict is an unvalidated object: any labels, each with any list of ids
SeqsUpTo(S, n) == UNION {[1..k -> S] : k \in 0..n}
Submissions == UNION {[D -> SeqsUpTo(Teams, MaxGroupLen)] : D \in SUBSET Labels}

\* getCorrectGroups: every team of the teams table under its group
getCorrectGroups(tg) ==
  [g \in {tg[t] : t \in Teams} \ {None} |-> {t \in Teams : tg[t] = g}]

SetOfHead(s) == IF s = <<>> THEN {} ELSE {s[1]}
\* new Set(array)
SetOf(s) == {s[i] : i \in DOMAIN s}

\* correctGroups.get(group) || [], as a set
correctTeamSet(cg, g) == IF g \in DOMAIN cg THEN cg[g] ELSE {}

\* areSetsEqual(set1, set2)
areSetsEqual(set1, set2) ==
  Cardinality(set1) = Cardinality(set2) /\ \A item \in set1 : item \in set2

\* misplacedTeams.length: one entry for each group of the submission and
\* each distinct team of it that the group of the teams table lacks
misplacedCount(u, cg) ==
  Cardinality({e \in (DOMAIN u) \X Teams :
                 e[2] \in SetOf(u[e[1]]) \ correctTeamSet(cg, e[1])})

\* findGroupWithTeam(userGroups, teamId): the first group, in the order of
\* the object's keys, whose list includes the team
findGroupWithTeam(u, teamId) ==
  LET G == {g \in DOMAIN u : teamId \in SetOf(u[g])}
  IN IF G = {} THEN None ELSE CHOOSE g \in G : \A h \in G : g <= h

\* findGroupWithTeam(correctGroups, teamId)
findCorrectGroupWithTeam(cg, teamId) ==
  LET G == {g \in DOMAIN cg : teamId \in cg[g]}
  IN IF G = {} THEN None ELSE CHOOSE g \in G : \A h \in G : g <= h

\* checkIranGroupCorrect(...) returns a result
checkIranGroupCorrect(u, cg, iran) ==
  LET userIranGroup == findGroupWithTeam(u, iran)
  IN /\ userIranGroup # None
     /\ userIranGroup = findCorrectGroupWithTeam(cg, iran)
     /\ areSetsEqual(SetOf(u[userIranGroup]),
                     correctTeamSet(cg, userIranGroup))

\* checkPerfectGroup(...) returns a result
checkPerfectGroup(u, cg) ==
  \E g \in DOMAIN u : areSetsEqual(SetOf(u[g]), correctTeamSet(cg, g))

\* checkThreeCorrect(...) returns a result
checkThreeCorrect(u, cg) ==
  \E g \in DOMAIN u :
    Cardinality(SetOf(u[g]) \cap correctTeamSet(cg, g)) = 3

ruleResult(rule) == [score |-> SCORES[rule], rule |-> rule]

scoreUserSum(u, cg, iran) ==
  LET m == misplacedCount(u, cg)
      sum == (IF m = 0 THEN 100 ELSE 0) + (IF m = 2 THEN 80 ELSE 0)
             + (IF m = 3 THEN 60 ELSE 0)
             + (IF iran # None /\ checkIranGroupCorrect(u, cg, iran)
                THEN 50 ELSE 0)
             + (IF checkPerfectGroup(u, cg) THEN 40 ELSE 0)
             + (IF checkThreeCorrect(u, cg) THEN 20 ELSE 0)
  IN [score |-> sum,
      rule |-> IF m = 0 THEN "ALL_CORRECT" ELSE IF sum = 0 THEN "NO_MATCH"
               ELSE "SUM"]

\* scoreUser(userGroups, correctGroups), with the id getTeamByName('Iran')
\* returned
scoreUser(u, cg, iran) ==
  LET misplaced == misplacedCount(u, cg)
  IN IF misplaced = 0 THEN ruleResult("ALL_CORRECT")
     ELSE IF misplaced = 2 THEN ruleResult("TWO_MISPLACED")
     ELSE IF misplaced = 3 THEN ruleResult("THREE_MISPLACED")
     ELSE IF iran # None /\ checkIranGroupCorrect(u, cg, iran)
       THEN ruleResult("IRAN_GROUP_CORRECT")
     ELSE IF checkPerfectGroup(u, cg) THEN ruleResult("PERFECT_GROUP")
     ELSE IF checkThreeCorrect(u, cg) THEN ruleResult("THREE_CORRECT")
     ELSE ruleResult("NO_MATCH")

\* nothing is being scored
InitScoreIdle ==
  /\ teamGroup = [t \in Teams |-> None]
  /\ iranTeamId = None
  /\ userGroups = <<>>
  /\ scoreResult = NoResult

\* any teams table in which at most the last team has no group; the team
\* named Iran, if there is one, has the first id
InitScore ==
  /\ teamGroup \in [Teams -> Labels \cup {None}]
  /\ \A t \in Teams : teamGroup[t] = None => t = NumTeams
  /\ iranTeamId \in {1, None}
  /\ userGroups = <<>>
  /\ scoreResult = NoResult

\* a stored prediction is scored: processPrediction flattens prediction.predict
\* and calls scoreUser(userGroups, correctGroups)
score(u) ==
  /\ scoreResult = NoResult
  /\ userGroups' = u
  /\ scoreResult' = scoreUser(u, getCorrectGroups(teamGroup), iranTeamId)
  /\ UNCHANGED <<teamGroup, iranTeamId>>
  /\ UNCHANGED <<queueVars, sessionVars, otpVars, guardVars, signalVars,
                 cleanupVars, rateVars>>

NextScore == scoreResult = NoResult /\ \E u \in Submissions : score(u)

Init ==
  /\ InitQueue /\ InitSession /\ InitOtp /\ InitScoreIdle /\ InitGuardIdle
  /\ InitSignals /\ InitCleanup /\ InitRate

SpecQueue == Init /\ [][NextQueue]_vars

SpecJobs == Init /\ [][NextJobs]_vars

\* the broker keeps delivering to a free consumer and the event loop keeps
\* running the handler and the settlement that follows it
SpecRetry == Init /\ [][NextRetry]_vars /\ WF_vars(WorkerStep(1))

SpecSync == Init /\ [][NextSync]_vars

SpecDispatch == Init /\ [][NextDispatch]_vars

SpecSession == Init /\ [][NextSession]_vars

SpecSessionMany == Init /\ [][NextSessionMany]_vars

SpecOtp == Init /\ [][NextOtp]_vars

SpecLogout == Init /\ [][NextLogout]_vars

SpecCleanup == Init /\ [][NextCleanup]_vars

SpecRateLimit == Init /\ [][NextRateLimit]_vars

SpecOtpMany == Init /\ [][NextOtpMany]_vars

SpecOtpSpike == Init /\ [][NextOtpSpike]_vars

\* nothing has happened; the cache is keyed by phone arguments as written
InitTexts ==
  /\ InitQueue /\ InitSession /\ InitOtpTexts /\ InitScoreIdle
  /\ InitGuardIdle /\ InitSignals /\ InitCleanup /\ InitRate

SpecPhone == InitTexts /\ [][NextPhone]_vars

\* a teams table is in place and nothing else has happened
InitScoring ==
  /\ InitQueue /\ InitSession /\ InitOtp /\ InitScore /\ InitGuardIdle
  /\ InitSignals /\ InitCleanup /\ InitRate

SpecScore == InitScoring /\ [][NextScore]_vars

\* users have refreshed before
InitRefreshed ==
  /\ InitQueue /\ InitSessionRefreshed /\ InitOtp /\ InitScoreIdle
  /\ InitGuardIdle /\ InitSignals /\ InitCleanup /\ InitRate

SpecSignals == InitRefreshed /\ [][NextSignals]_vars

\* the guard is configured and nothing else has happened
InitGuarded ==
  /\ InitQueue /\ InitSession /\ InitOtp /\ InitScoreIdle /\ InitGuard
  /\ InitSignals /\ InitCleanup /\ InitRate

SpecGuard == InitGuarded /\ [][NextGuard]_vars

(***************************************************************************)
(* Claims about the scoring pipeline (checked under SpecQueue, SpecJobs,   *)
(* SpecRetry and SpecDispatch)                                             *)
(***************************************************************************)

\* C1: at every reachable state every submission has at most one Result
\* row, whatever the interleaving of dispatcher runs, redeliveries and
\* workers handling jobs of the same submission.
C1_AtMostOneResult ==
  \A s \in Subs : Cardinality(ResultsOf(s)) <= 1

\* C3: when the handler failed for a message with x-retry-count h (absent
\* = 0): if h < MAX_RETRIES a copy with x-retry-count = h + 1 and
\* x-last-error is published to the same queue and the original is acked;
\* otherwise the original is nacked without requeue and nothing is
\* republished.
C3_RetryPolicy ==
  [][\A w \in Workers :
       handleMessageRetry(w) =>
         LET m == worker[w].msg
             h == RetryHeader(m)
         IN IF h < MAX_RETRIES
            THEN /\ \E c \in queue' \ queue :
                      /\ c.predictionId = m.predictionId
                      /\ c.retry = h + 1
                      /\ c.lastError
                 /\ <<m.id, "ack_retry">> \in settled'
            ELSE /\ <<m.id, "nack">> \in settled'
                 /\ m \in dlq'
                 /\ published' = published]_vars

\* C6: when the same job was published twice and both copies were consumed
\* and settled as handled, exactly one Result row exists for the submission.
C6_SameJobTwiceOneResult ==
  \A m1, m2 \in published :
    ( /\ m1.id # m2.id
      /\ m1.predictionId = m2.predictionId
      /\ m1.retry = None /\ m2.retry = None
      /\ m1.predictionId \in predictions
      /\ <<m1.id, "ack_ok">> \in settled
      /\ <<m2.id, "ack_ok">> \in settled )
    => Cardinality(ResultsOf(m1.predictionId)) = 1

\* the messages a consumer slot is handling
InHandler == {worker[w].msg : w \in {v \in Workers : worker[v].pc # "idle"}}

\* C12: a message whose handler fails on every delivery (a malformed job)
\* is handled finitely often: no message of a retry chain carries more than
\* MAX_RETRIES republishes, a nacked message sits in the dead-letter queue
\* and is neither waiting in the main queue nor handled again, and
\* eventually the chain of every malformed job has ended in the
\* dead-letter queue with no copy left to deliver.
C12_RetriesEndInDeadLetter ==
  /\ [](/\ \A m \in published : RetryHeader(m) <= MAX_RETRIES
        /\ \A m \in published :
             <<m.id, "nack">> \in settled
               => m \in dlq /\ m \notin queue /\ m \notin InHandler
        /\ \A m \in dlq : <<m.id, "nack">> \in settled)
  /\ <>[](\A m \in published :
            m.predictionId = None
              => /\ m \notin queue /\ m \notin InHandler
                 /\ \E c \in dlq : c.predictionId = None)

C12_Witness ==
  \E m \in dlq : /\ m.predictionId = None
                  /\ RetryHeader(m) = MAX_RETRIES - 1
                  /\ queue = {} /\ InHandler = {}

\* C13: once an error was raised while a consumer handles a job, the next
\* thing that happens to the message is never the acknowledgement of a
\* handled job: it is settled by the retry policy (acked after a republish,
\* or nacked into the dead-letter queue), or the channel closed and the
\* broker took it back.
C13_ErrorNeverAckedAsHandled ==
  [][\A w \in Workers :
       (worker[w].raised /\ worker'[w] # worker[w])
         => LET m == worker[w].msg
            IN /\ <<m.id, "ack_ok">> \notin settled'
               /\ \/ /\ <<m.id, "ack_retry">> \in settled'
                     /\ \E c \in published' \ published :
                          c.predictionId = m.predictionId
                  \/ <<m.id, "nack">> \in settled' /\ m \in dlq'
                  \/ m \in queue' /\ settled' = settled]_vars

C13_Witness ==
  \E m \in dlq :
    /\ m.predictionId \in predictions
    /\ m.lastError
    /\ \E o \in published : /\ o.predictionId = m.predictionId
                             /\ <<o.id, "ack_retry">> \in settled

C15_MissingSubmissionAcked ==
  [][\A w \in Workers :
       (worker[w].absent /\ worker'[w] # worker[w])
         => LET m == worker[w].msg
            IN /\ worker[w].pc = "ack" /\ ~worker[w].raised
               /\ results' = results
               /\ statsProcessed' = statsProcessed
               /\ published' = published /\ dlq' = dlq
               /\ \/ settled' = settled \cup {<<m.id, "ack_ok">>}
                  \/ m \in queue' /\ settled' = settled]_vars

C15_Witness ==
  \E w \in Workers :
    /\ worker[w].absent
    /\ worker[w].pc = "ack"
    /\ worker[w].msg.predictionId \in removed

\* C16: when the handler's existence check finds a Result row for the
\* submission of its job, the handler returns without error: the next thing
\* that happens to the message is its acknowledgement as handled (or the
\* channel closes), and tables, counters and queues are left as they were.
C16_ExistingResultSkipped ==
  [][\A w \in Workers :
       (worker[w].existed /\ worker'[w] # worker[w])
         => LET m == worker[w].msg
            IN /\ worker[w].pc = "ack" /\ ~worker[w].raised
               /\ results' = results /\ predictions' = predictions
               /\ statsProcessed' = statsProcessed
               /\ statsTotal' = statsTotal
               /\ published' = published /\ dlq' = dlq
               /\ \/ settled' = settled \cup {<<m.id, "ack_ok">>}
                  \/ m \in queue' /\ settled' = settled]_vars

C16_Witness ==
  \E w \in Workers :
    /\ worker[w].existed
    /\ worker[w].pc = "ack"
    /\ Cardinality(ResultsOf(worker[w].msg.predictionId)) = 1

\* C17: when a dispatcher run returns, it has published exactly one job for
\* every submission that had no Result row when its scan ran, no job for a
\* submission that had one, and nothing else; every job is a fresh message
\* without retry headers.
C17_OneJobPerUnprocessed ==
  [][\A d \in Dispatchers :
       DispatchDone(d) =>
         LET run == dispatcher[d]
         IN /\ \A s \in run.seenPredictions :
                 Cardinality({m \in run.sent : m.predictionId = s})
                   = IF \E r \in run.seenResults : r.predictionId = s
                     THEN 0 ELSE 1
            /\ \A m \in run.sent : /\ m.predictionId \in run.seenPredictions
                                    /\ m.retry = None
                                    /\ m \in published]_vars

C17_Witness ==
  /\ dispatcher[1].pc = "publish"
  /\ dispatcher[1].scan = {}
  /\ dispatcher[1].sent # {}
  /\ dispatchRuns = MaxDispatch
  /\ results # {}

\* C18: the dispatcher writes stats:total only while the key is absent, and
\* then with the size of its scan; once stats:total exists no step changes
\* it (first write wins), and stats:processed is set to 0 only by the run
\* that initialised stats:total.
C18_FirstWriteWins ==
  [][/\ statsTotal # None => statsTotal' = statsTotal
     /\ \A d \in Dispatchers :
          DispatchSetTotal(d)
            => statsTotal = None /\ statsTotal' = dispatcher[d].total
     /\ \A d \in Dispatchers :
          DispatchSetProcessed(d) => statsTotal = dispatcher[d].total]_vars

(***************************************************************************)
(* Claims about sessions (checked under SpecSession / SpecSessionMany)     *)
(***************************************************************************)
\* C2: for every stored session s with now < s.expiresAt and every token t
\* that verifies against s.tokenHash, validateSession(t) returns s, whether
\* or not the cache entry of t's prefix is present and however many other
\* sessions exist.
C2_LiveSessionValidates ==
  \A s \in Live, t \in Presentable :
    s.tokenHash = bcryptHash(t) =>
      \A S \in RecentSessions : validateSessionResult(t, S) = s

\* C7: validateSession(t) returns a session s only if s is stored, now <
\* s.expiresAt and t verifies against the hash currently stored on s; an
\* access token whose hash refreshSession has overwritten is rejected.
C7_ValidateOnlyCurrentHash ==
  \A t \in Presentable, S \in RecentSessions :
    LET s == validateSessionResult(t, S)
    IN /\ s.id # 0 => /\ s \in sessions
                       /\ now < s.expiresAt
                       /\ s.tokenHash = bcryptHash(t)
       /\ t \in rotated => s.id = 0

\* C7 case: a rotated-out token is presented while its session is stored
\* and live and the cache still maps the token's prefix to that session.
C7_Witness ==
  \E i \in issued :
    /\ i.tok \in rotated
    /\ \E s \in FindById(i.sid) : now < s.expiresAt
    /\ get(accessCache, getTokenPrefix(i.tok)).sid = i.sid
    /\ \A S \in RecentSessions : validateSessionResult(i.tok, S).id = 0

C9_LogoutAllRejectsTokens ==
  \A t \in revokedAll :
    \A S \in RecentSessions : validateSessionResult(t, S) = NoSession

\* C9 case: deleteAllUserSessions ran for the owner of a token whose cache
\* entry is still present, and the token is rejected.
C9_Witness ==
  \E i \in issued :
    /\ i.tok \in revokedAll
    /\ i.kind = "access"
    /\ get(accessCache, getTokenPrefix(i.tok)).sid = i.sid
    /\ get(accessCache, getTokenPrefix(i.tok)).exp > now
    /\ \A S \in RecentSessions : validateSessionResult(i.tok, S) = NoSession

\* C10: once refreshSession has returned access token t2 for session s,
\* every later validateSession(t2) made before a further refresh, deletion
\* or expiry of s returns s.
C10_RefreshedTokenValidates ==
  \A i \in issued :
    i.via = "refresh" =>
      \A s \in FindById(i.sid) :
        (now < s.expiresAt /\ s.tokenHash = bcryptHash(i.tok)) =>
          \A S \in RecentSessions : validateSessionResult(i.tok, S).id = i.sid

(***************************************************************************)
(* Claims about one-time codes (checked under SpecOtp, SpecOtpMany and    *)
(* SpecOtpSpike)                                                           *)
(***************************************************************************)
\* C4: for every phone and every window of length SEND_COOLDOWN at most one
\* sendOtp call succeeds, also when several calls for the phone are in
\* flight at the same time.
C4_OneSendPerCooldown ==
  \A i, j \in DOMAIN sendOk :
    (i < j /\ sendOk[i].phone = sendOk[j].phone) =>
      sendOk[j].at - sendOk[i].at >= sendCooldownSeconds

\* C5: for every phone and every window of length VERIFY_WINDOW at most
\* MAX_VERIFY_ATTEMPTS verifyOtp calls get past the attempt cap and reach
\* the stored-code lookup.
C5_VerifyAttemptsCapped ==
  \A p \in Phones, t \in 0..MaxTime :
    Cardinality({i \in DOMAIN accepted :
                   /\ accepted[i].phone = p
                   /\ t <= accepted[i].at
                   /\ accepted[i].at < t + verifyWindowSeconds})
      <= MAX_VERIFY_ATTEMPTS

\* what the four checks of verifyOtp, taken in the order attempt cap, code
\* present, code not expired, code equal, say about a call that counted
\* attempts, read otpData at time t and was given code
FirstFailingCheck(attempts, otpData, t, code) ==
  IF attempts > MAX_VERIFY_ATTEMPTS THEN "EXCEEDED_VERIFICATION_ATTEMPTS"
  ELSE IF otpData = NoOtp THEN "OTP_NOT_FOUND_OR_EXPIRED"
  ELSE IF t > otpData.expiresAt THEN "OTP_EXPIRED"
  ELSE IF otpData.code # code THEN "INVALID_OTP_CODE"
  ELSE "userId"

\* C19: a verifyOtp call answers with the error of the first check that
\* fails, in the order attempt cap, code present, code not expired, code
\* equal; a call over the cap never reads the stored code; a call reaches
\* the cleanup and returns a user id only when all four checks passed.
C19_ChecksInOrder ==
  \A r \in Reqs :
    LET q == req[r]
    IN /\ q.pc = "v_reply"
           => /\ q.reply = FirstFailingCheck(q.attempts, q.seen, q.at, q.code)
              /\ (q.attempts > MAX_VERIFY_ATTEMPTS) = (q.seen = Unread)
       /\ q.pc \in {"v_del1", "v_del2"}
           => FirstFailingCheck(q.attempts, q.seen, q.at, q.code) = "userId"

C19_Witness ==
  \E r \in Reqs :
    /\ req[r].pc = "v_reply"
    /\ req[r].reply = "OTP_EXPIRED"
    /\ req[r].seen.code # req[r].code

\* C20 as stated: a verifyOtp call that returns a user id has deleted the
\* code key and the attempts key of its phone, and every later call with
\* the same code, as long as no new code was stored, fails with
\* OTP_NOT_FOUND_OR_EXPIRED.
C20_ReplayNotFound ==
  \A r \in Reqs :
    LET q == req[r]
    IN q.pc = "v_reply" =>
         /\ q.reply = "userId"
              => otpKey[q.phone] = NoOtp /\ attemptKey[q.phone] = NoCounter
         /\ consumed[q.phone] = q.code
              => q.reply = "OTP_NOT_FOUND_OR_EXPIRED"

\* C20, amended: a verifyOtp call that returns a user id has deleted the
\* code key and the attempts key of its phone; every later call with the
\* same code, as long as no new code was stored, fails: with
\* OTP_NOT_FOUND_OR_EXPIRED while the attempts counter, which restarted
\* from zero, is within MAX_VERIFY_ATTEMPTS, and with
\* EXCEEDED_VERIFICATION_ATTEMPTS beyond.
C20_ReplayFails ==
  \A r \in Reqs :
    LET q == req[r]
    IN q.pc = "v_reply" =>
         /\ q.reply = "userId"
              => otpKey[q.phone] = NoOtp /\ attemptKey[q.phone] = NoCounter
         /\ consumed[q.phone] = q.code
              => q.reply = IF q.attempts > MAX_VERIFY_ATTEMPTS
                           THEN "EXCEEDED_VERIFICATION_ATTEMPTS"
                           ELSE "OTP_NOT_FOUND_OR_EXPIRED"

C20_Witness ==
  \E r \in Reqs :
    /\ req[r].pc = "v_reply"
    /\ consumed[req[r].phone] = req[r].code
    /\ req[r].reply = "OTP_NOT_FOUND_OR_EXPIRED"
    /\ req[r].attempts = 1

\* C11: of the verifyOtp calls of a spike for one phone, which started
\* together from an absent attempts counter, at most MAX_VERIFY_ATTEMPTS get
\* past the attempt cap.
C11_SpikeCapped ==
  \A p \in Phones :
    Cardinality({i \in DOMAIN accepted : accepted[i].phone = p})
      <= MAX_VERIFY_ATTEMPTS

\* a second sendOtp call that has read the rate limit keys
SecondSend(r) == req[r].pc \in {"s_last", "s_store", "s_set1", "s_set2",
                                "s_sms", "s_reply"}

C22_SixthAttemptExceeded ==
  (req[1].pc = "v_reply" /\ verifyRun[req[1].phone].n > MAX_VERIFY_ATTEMPTS)
    => req[1].reply = "EXCEEDED_VERIFICATION_ATTEMPTS"

\* the sixth call of such a run is being rejected and no code was ever sent
C22_Witness ==
  /\ req[1].pc = "v_reply" /\ verifyRun[req[1].phone].n = MAX_VERIFY_ATTEMPTS + 1
  /\ req[1].reply = "EXCEEDED_VERIFICATION_ATTEMPTS"
  /\ sendCalls = 0

\* the same with a code stored for the phone
C22_WitnessSent ==
  /\ req[1].pc = "v_reply" /\ verifyRun[req[1].phone].n = MAX_VERIFY_ATTEMPTS + 1
  /\ req[1].reply = "EXCEEDED_VERIFICATION_ATTEMPTS"
  /\ otpKey[req[1].phone] # NoOtp

\* the consumers that hold the message m: it was delivered and is neither
\* settled nor taken back
Holding(m) == {w \in Workers : worker[w].pc # "idle" /\ worker[w].msg = m}

\* C30: every delivered message is settled exactly once: it has one
\* settlement (ack or nack, never both), a settled message is neither
\* delivered again nor being handled, and a message that is not settled is
\* still waiting, or with a consumer, or was never delivered; a message whose
\* handler failed is acked only together with a copy that carries the retry
\* header incremented by one
C30_SettledExactlyOnce ==
  \A m \in published :
    LET kinds == {k \in {"ack_ok", "ack_retry", "nack"} :
                    <<m.id, k>> \in settled}
    IN /\ Cardinality(kinds) <= 1
       /\ Cardinality(Holding(m)) <= 1
       /\ IF kinds = {}
          THEN (m \in queue) # (Holding(m) # {})
          ELSE m \notin queue /\ Holding(m) = {}
       /\ "ack_retry" \in kinds =>
            \E c \in published :
              /\ c.id > m.id /\ c.predictionId = m.predictionId
              /\ c.retry = RetryHeader(m) + 1

\* a retry chain has ended: its first messages were acked with a copy
\* published, its last one was nacked, and nothing is left to deliver
C30_Witness ==
  /\ \E j, k \in 1..MaxMsgs :
       {<<j, "ack_retry">>, <<k, "nack">>} \subseteq settled
  /\ \A w \in Workers : worker[w].pc = "idle"
  /\ queue = {}

(***************************************************************************)
(* Claims about scoring                                                    *)
(***************************************************************************)
RuleOrder == <<"ALL_CORRECT", "TWO_MISPLACED", "THREE_MISPLACED",
               "IRAN_GROUP_CORRECT", "PERFECT_GROUP", "THREE_CORRECT",
               "NO_MATCH">>

\* the condition of each rule on the submission being scored; the group of
\* the designated team in the submission is the first one that lists it
RuleHolds(rule) ==
  LET truth(g) == {t \in Teams : teamGroup[t] = g}
      user(g) == {userGroups[g][i] : i \in DOMAIN userGroups[g]}
      misplaced ==
        Cardinality({e \in (DOMAIN userGroups) \X Teams :
                       e[2] \in user(e[1]) /\ teamGroup[e[2]] # e[1]})
      listing == {g \in DOMAIN userGroups : iranTeamId \in user(g)}
  IN CASE rule = "ALL_CORRECT" -> misplaced = 0
       [] rule = "TWO_MISPLACED" -> misplaced = 2
       [] rule = "THREE_MISPLACED" -> misplaced = 3
       [] rule = "IRAN_GROUP_CORRECT" ->
            /\ iranTeamId # None /\ listing # {}
            /\ \E g \in listing :
                 /\ \A h \in listing : g <= h
                 /\ teamGroup[iranTeamId] = g
                 /\ user(g) = truth(g)
       [] rule = "PERFECT_GROUP" ->
            \E g \in DOMAIN userGroups : user(g) = truth(g)
       [] rule = "THREE_CORRECT" ->
            \E g \in DOMAIN userGroups :
              Cardinality(user(g) \cap truth(g)) = 3
       [] OTHER -> TRUE

\* C23: the scorer returns one rule, the first in the order ALL_CORRECT,
\* TWO_MISPLACED, THREE_MISPLACED, IRAN_GROUP_CORRECT, PERFECT_GROUP,
\* THREE_CORRECT, NO_MATCH whose condition holds, and the score is that
\* rule's value, one of 100, 80, 60, 50, 40, 20, 0: values of several
\* satisfied rules are not added
C23_FirstRuleWins ==
  scoreResult # NoResult =>
    \E i \in DOMAIN RuleOrder :
      /\ scoreResult.rule = RuleOrder[i]
      /\ RuleHolds(RuleOrder[i])
      /\ \A j \in 1..(i - 1) : ~RuleHolds(RuleOrder[j])
      /\ scoreResult.score = SCORES[RuleOrder[i]]
      /\ scoreResult.score \in {100, 80, 60, 50, 40, 20, 0}

\* a submission that satisfies two lower rules at once got the higher one
C23_Witness ==
  /\ scoreResult.rule = "PERFECT_GROUP"
  /\ RuleHolds("THREE_CORRECT")

\* the submission with the list of group g reordered by p
Reordered(g, p) ==
  [userGroups EXCEPT ![g] = [i \in DOMAIN userGroups[g] |-> userGroups[g][p[i]]]]

\* C24: the score and the rule do not change when the ids inside the list of
\* any group of the submission are permuted
C24_OrderInsideGroupIrrelevant ==
  scoreResult # NoResult =>
    \A g \in DOMAIN userGroups :
      \A p \in Permutations(DOMAIN userGroups[g]) :
        scoreUser(Reordered(g, p), getCorrectGroups(teamGroup), iranTeamId)
          = scoreResult

\* a scored submission with a group of three different ids, not all correct
C24_Witness ==
  /\ scoreResult # NoResult
  /\ scoreResult.rule \notin {"ALL_CORRECT", "NO_MATCH"}
  /\ \E g \in DOMAIN userGroups :
       Cardinality({userGroups[g][i] : i \in DOMAIN userGroups[g]}) = 3

\* C27: refreshSession changes nothing of the stored sessions but the access
\* hash of the session it refreshes: the write of generateNewAccessToken
\* leaves every row in place with its id, user, refresh hash and expiry
C27_RefreshChangesOnlyAccessHash ==
  [][(refresher.pc = "save" /\ refresher'.pc = "cache") =>
       /\ \A s2 \in sessions' :
            \E s \in sessions : s2 = [s EXCEPT !.tokenHash = s2.tokenHash]
       /\ \A s \in sessions : \E s2 \in sessions' : s2.id = s.id]_vars

\* C28: a refreshSession call with a valid refresh token is not rejected
\* because of the value of the user's refresh counter: above the hourly
\* threshold it writes the fraud signal to the audit log and goes on to
\* issue the new access token
C28_RefreshNeverBlockedByCount ==
  /\ [op |-> "refreshSession", cause |-> "count"] \notin thrown
  /\ \A u \in Users :
       refreshCount[u] > TOKEN_REFRESH_THRESHOLD_PER_HOUR + 1 =>
         /\ "Unusually frequent token refresh pattern detected" \in audit
         /\ \/ \E i \in issued : i.via = "refresh" /\ i.userId = u
            \/ refresher.pc # "idle"

\* a refresh counted above the threshold has returned its new access token
C28_Witness ==
  /\ \E u \in Users :
       /\ refreshCount[u] > TOKEN_REFRESH_THRESHOLD_PER_HOUR + 1
       /\ \E i \in issued : i.via = "refresh" /\ i.userId = u
  /\ refresher.pc = "idle"
  /\ "Unusually frequent token refresh pattern detected" \in audit

\* C29: the fraud signals of createSession and refreshSession never make the
\* operation reject, even when their database or cache access fails
C29_SignalsNeverRaise ==
  \A e \in thrown : e.cause \notin {"cache", "database"}

(***************************************************************************)
(* Claims about the guard                                                  *)
(***************************************************************************)
\* C25: the guard lets a request through only when its Authorization header
\* is "Bearer <token>" and validateSession returned a session for the token,
\* and then attaches that session's userId and id to the request; a request
\* without the header or with another type is rejected with
\* MISSING_ACCESS_TOKEN and validateSession is not called; a token for which
\* validateSession returns null is rejected with INVALID_OR_EXPIRED_TOKEN
C25_GuardAdmitsOnlySessions ==
  request.pc = "done" =>
    /\ request.reply = "pass" =>
         /\ request.authorization.type = "Bearer"
         /\ request.called
         /\ request.session # NoSession
         /\ verifyToken(request.authorization.token,
                        request.session.tokenHash)
         /\ request.user = [userId |-> request.session.userId,
                            sessionId |-> request.session.id]
    /\ request.authorization.type # "Bearer" =>
         /\ request.reply = "MISSING_ACCESS_TOKEN"
         /\ ~request.called
    /\ (request.called /\ request.session = NoSession) =>
         request.reply = "INVALID_OR_EXPIRED_TOKEN"

\* a request with a live session's token under another header type was
\* turned away without a look at the sessions
C25_Witness ==
  /\ request.pc = "done"
  /\ request.authorization.type = "Basic"
  /\ \E s \in Live : verifyToken(request.authorization.token, s.tokenHash)
  /\ request.reply = "MISSING_ACCESS_TOKEN"

\* the same token as Bearer was let through
C25_WitnessPass ==
  /\ request.pc = "done" /\ request.reply = "pass"
  /\ request.user.sessionId = request.session.id

\* C26: with address validation enabled, a request whose client address
\* differs from the address stored with its session is rejected with
\* SESSION_IP_MISMATCH; a user agent that differs from the stored one never
\* rejects a request: a request with a session and no address mismatch passes
C26_AddressRejectsAgentDoesNot ==
  (request.pc = "done" /\ request.called /\ request.session # NoSession) =>
    IF /\ enableIpValidation
       /\ request.ip # None /\ request.session.ipAddress # None
       /\ request.ip # request.session.ipAddress
    THEN request.reply = "SESSION_IP_MISMATCH"
    ELSE request.reply = "pass"

\* with both validations enabled, a request from another address was
\* rejected
C26_Witness ==
  /\ request.pc = "done" /\ enableIpValidation /\ enableUserAgentValidation
  /\ request.reply = "SESSION_IP_MISMATCH"
  /\ request.ip # request.session.ipAddress

\* with both validations enabled, a request from the stored address and
\* another user agent passed
C26_WitnessAgent ==
  /\ request.pc = "done" /\ enableIpValidation /\ enableUserAgentValidation
  /\ request.reply = "pass"
  /\ request.logged = "User agent mismatch detected"
  /\ request.ip = request.session.ipAddress

\* the verifyOtp call of slot r has passed all its checks: it returns a user
\* id and AuthService.verifyOtp goes on to createSession
Succeeding(r) ==
  \/ req[r].pc \in {"v_del1", "v_del2"}
  \/ req[r].pc = "v_reply" /\ req[r].reply = "userId"

\* C31: an issued code authenticates at most once: of the verifyOtp calls
\* for a phone that run at the same time with the correct code, at most one
\* passes the checks on one stored code and goes on to create a session.
C31_OtpAuthenticatesOnce ==
  \A r1, r2 \in SpikeReqs :
    (r1 # r2 /\ Succeeding(r1) /\ Succeeding(r2)
       /\ req[r1].phone = req[r2].phone)
      => req[r1].seen # req[r2].seen

\* getProcessingStatus: parseInt(str || '0', 10) of a counter key
statValue(k) == IF k = None THEN 0 ELSE k

\* getProcessingStatus: pending = total - processed
pending == statValue(statsTotal) - statValue(statsProcessed)

\* C32: whenever the processing status is read, prediction:stats:processed
\* is at most prediction:stats:total, so the pending value it reports is
\* never negative, also after the dispatcher ran again for submissions
\* created after its first run.
C32_PendingNeverNegative == pending >= 0

(***************************************************************************)
(* Claims about the synchronous trigger (checked under SpecSync)           *)
(***************************************************************************)
\* C33: a synchronous run scores only submissions that have no Result row:
\* when it saves its results, a submission that already had a Result row,
\* from an earlier run or from asynchronous processing, gets no further one.
C33_SyncSkipsProcessed ==
  [][(dispatcher[1].pc = "batch" /\ dispatcher'[1].pc = "idle")
       => \A s \in Subs :
            ResultsOf(s) # {}
              => {r \in results' : r.predictionId = s} = ResultsOf(s)]_vars

(***************************************************************************)
(* Claims about forged tokens (checked under SpecSessionMany)              *)
(***************************************************************************)
\* C34: a caller presenting a well-formed token that verifies against no
\* stored hash, even one sharing a cached prefix with a valid token, gains
\* nothing: the call is never authenticated, and it does not change what a
\* later validateSession answers for any token that was issued.
C34_ForgedTokenGainsNothing ==
  [][/\ \A f \in Forged, S \in RecentSessions :
          validateSessionResult(f, S).id = 0
     /\ (\E f \in Forged : validateSession(f))
          => \A i \in issued, S \in RecentSessions :
               validateSessionResult(i.tok, S)' = validateSessionResult(i.tok, S)
    ]_vars

(***************************************************************************)
(* Further claims about scoring (checked under SpecScore)                  *)
(***************************************************************************)
\* C35: ALL_CORRECT (score 100) is returned only when the submission equals
\* the teams table on every group label, every team being placed in its
\* group; a submission that leaves out groups or teams is never scored 100.
C35_AllCorrectMeansComplete ==
  scoreResult.rule = "ALL_CORRECT" =>
    LET cg == getCorrectGroups(teamGroup)
    IN \A g \in DOMAIN cg :
         /\ g \in DOMAIN userGroups
         /\ SetOf(userGroups[g]) = cg[g]

(***************************************************************************)
(* Claims about phone arguments (checked under SpecPhone)                  *)
(***************************************************************************)
\* C36: the send cooldown applies per normalized phone number: of two
\* sendOtp calls that succeed and whose phone arguments, written differently
\* or not, normalize to the same number, the second wrote its rate limit
\* key at least sendCooldownSeconds after the first.
C36_CooldownPerNormalizedPhone ==
  \A i, j \in DOMAIN sendOk :
    (i < j /\ normalizePhoneNumber(sendOk[i].phone)
                = normalizePhoneNumber(sendOk[j].phone))
      => sendOk[j].setAt - sendOk[i].setAt >= sendCooldownSeconds

(***************************************************************************)
(* Claims about the database fallback (checked under SpecSessionMany)      *)
(***************************************************************************)
\* C37: on a cache miss validateSession verifies the token against at most
\* RECENT_LOOKUP_LIMIT rows, which are non-expired sessions with the
\* greatest createdAt; on a match it caches the token's prefix for that
\* session's id with a time to live of min(remaining session lifetime,
\* sessionTtl).
C37_FallbackBoundedAndRecached ==
  [][\A t \in Presentable, S \in RecentSessions :
       (validateTokenFormat(t) /\ validateTokenFromCache(t) = 0) =>
         LET compared == fallbackCompared(t, S)
             found == validateTokenFromDatabase(t, S)
         IN /\ Cardinality(compared) <= RECENT_LOOKUP_LIMIT
            /\ \A s \in compared :
                 /\ s \in sessions /\ s.expiresAt > now
                 /\ \A b \in sessions \ S :
                      b.expiresAt > now => s.createdAt >= b.createdAt
            /\ (found.id # 0 /\ validateSessionCache(t, S)) =>
                 /\ verifyToken(t, found.tokenHash)
                 /\ accessCache'[getTokenPrefix(t)] =
                      [sid |-> found.id,
                       exp |-> now + Min(found.expiresAt - now, sessionTtl)]
    ]_vars

\* more live sessions than the fallback reads, and an entry that a fallback
\* match has written: it lasts longer than the entries written at login or
\* refresh
C37_Witness ==
  /\ Cardinality(Live) > RECENT_LOOKUP_LIMIT
  /\ \E q \in Prefixes :
       /\ accessCache[q].sid # 0
       /\ accessCache[q].exp > now + accessTokenTtl

(***************************************************************************)
(* Claims about the cleanup job (checked under SpecCleanup)                *)
(***************************************************************************)
\* C38: the delete of a cleanup run removes every session with
\* expiresAt < now and no session with expiresAt >= now: a live session is
\* never removed by cleanup.
C38_CleanupRemovesExactlyExpired ==
  [][(cleanup.pc = "delete" /\ cleanup'.pc = "idle")
       => sessions' = {s \in sessions : s.expiresAt >= now}]_vars

\* a run has removed an expired session and left one that expires just now
C38_Witness ==
  /\ cleanup.pc = "idle"
  /\ cleanup.removed # {}
  /\ \A s \in cleanup.removed : s.expiresAt < now
  /\ \E s \in sessions : s.expiresAt = now

(***************************************************************************)
(* Claims about logout (checked under SpecLogout)                          *)
(***************************************************************************)
\* C39: deleteSession(userId, sessionId) removes at most one session, the
\* one that has that id and belongs to that user; when the session belongs
\* to another user or does not exist nothing is deleted, and no other
\* session is affected.
C39_DeleteOnlyOwnSession ==
  [][\A u \in LogoutUsers, sid \in 1..(FewSessions + 1) :
       deleteSession(u, sid) =>
         /\ sessions \ sessions' = {s \in sessions : s.id = sid /\ s.userId = u}
         /\ Cardinality(sessions \ sessions') <= 1
         /\ sessions' \subseteq sessions
    ]_vars

\* a session was deleted while another session of its owner and a session
\* of another user stayed
C39_Witness ==
  \E i \in issued :
    /\ i.tok \in revokedOne
    /\ FindById(i.sid) = {}
    /\ \E a, b \in sessions : a.userId = i.userId /\ b.userId # i.userId


\* C40: per client address the rate-limiting guard admits at most
\* maxRequests requests while one counter key lives, and the counter key of
\* an address carries an expiry of at most windowSeconds whenever the call
\* that created it is no longer waiting for its EXPIRE, so that a rejected
\* address is admitted again once the window has elapsed.
C40_RateLimitWindowExpires ==
  \A ip \in Ips :
    /\ rateAdmitted[ip] <= maxRequests
    /\ (/\ rateLimitKey[ip].n # 0
        /\ ~\E c \in Reqs : rateCall[c].pc = "expire" /\ rateCall[c].ip = ip)
       => /\ rateLimitKey[ip].exp # None
          /\ rateLimitKey[ip].exp <= now + windowSeconds

====
